---- MODULE Spec2Model ----
(***************************************************************************)
(* Model of the documentor extension's core: the LockManager               *)
(* (documentor/utils/lockManager, a wrapper around proper-lockfile), the   *)
(* IndexManager (documentor/indexing/indexManager.cjs) and the indexers    *)
(* and documenters that use both.                                          *)
(*                                                                         *)
(* Twelve specifications share the clock `now`:                            *)
(*   SpecLock     the LockManager at the granularity of its awaits, for    *)
(*                one (filePath, prefix) pair, used by several contexts of *)
(*                two processes; one tick stands for a few minutes;        *)
(*   SpecIndex    top-level indexPath calls (indexFile, indexDirectory)    *)
(*                over a small directory tree;                             *)
(*   SpecDoc      top-level documentPath calls (documentFile,              *)
(*                documentDirectory and the indexers they call);           *)
(*   SpecIndexFs  indexPath calls on a disk that can refuse the write of   *)
(*                a record, with a record of an ignored path in the index; *)
(*   SpecIm       direct calls of the IndexManager's methods for the paths *)
(*                of two projects;                                         *)
(*   SpecLockDir  the lock files of one path under two prefixes in tmpDir, *)
(*                with cleanupStaleLocks and cleanupFileLocks;             *)
(*   SpecRace     two contexts that call indexPath on one file at          *)
(*                overlapping times;                                       *)
(*   SpecConc     two contexts that make documentPath and indexPath calls, *)
(*                every pending call being resumed sooner or later;        *)
(*   SpecRedoc    one context that calls documentPath on the same file     *)
(*                more than once;                                          *)
(*   SpecAddDoc   documentFile on one file at the granularity of           *)
(*                addDocumentation's attempts, with the file's content;    *)
(*   SpecImPaths  IndexManager calls for paths with an underscore in       *)
(*                their names and for a path outside every project;        *)
(*   SpecClear    the command that clears the index of a project.          *)
(* In all but SpecLock `now` is a reading of Date.now().                   *)
(***************************************************************************)
EXTENDS Integers, Sequences, FiniteSets, TLC

VARIABLES
    now,        \* Date.now(), in ticks
    \* ---- LockManager state for one (filePath, prefix) pair ----
    artifact,   \* the lock artifact file <lockFilePath>: [exists, mtime]
    lockDir,    \* proper-lockfile's directory <lockFilePath>.lock: [exists, mtime]
    locks,      \* proper-lockfile's per-process registry locks[file]: owner context or None
    lockMtime,  \* the mtime the registered lock object recorded (lock.mtime), per process
    lockObj,    \* the lock object a context's release closure refers to: none/active/released
    procOf,     \* per context: the process it runs in, fixed at start
    alive,      \* per process: FALSE once the process has crashed
    pc,         \* per context: position inside acquireLock
    optRetries, \* per context: options.retries of the running call
    attempts,   \* per context: retries made so far by lockfile.lock
    err,        \* per context: code of the error acquireLock threw, or "none"
    calls,      \* per context: acquireLock calls made so far
    \* ---- history of the run, read only by the properties ----
    acquiredAt, \* per context: when its lock was acquired
    hist,       \* per context: createFailed, staleStart (facts about the running call)
    \* ---- the project tree, the index store and the indexing/documenting calls ----
    fileKind,   \* per file: what its content is (text, binary, empty, large)
    mtimeMs,    \* per path: fs.stat(path).mtimeMs
    store,      \* per path: the record in its index file, or Null
    ixLock,     \* per (prefix, path): who holds that lock
    stack,      \* per context: the frames of its pending async calls, innermost last
    ret,        \* per context: how the call that returned last ended
    ixCalls,    \* per context: top-level calls started so far
    \* ---- history of the run, read only by the properties ----
    cur,        \* per context: facts about its running (or last) top-level call
    prev,       \* per context: facts about the top-level call before that
    \* ---- the IndexManager's files under baseIndexDir and its direct callers ----
    workspaceFolders, \* vscode.workspace.workspaceFolders: the fsPath of each folder
    markers,    \* the directories that contain .git or package.json
    partitions, \* the project directories that exist under baseIndexDir
    indexFiles, \* the index files that exist: <<projectId, file name>> -> content
    api,        \* the IndexManager call that just returned, or NoApi
    \* ---- the LockManager's directory tmpDir and the cleanup calls ----
    tmpDir,     \* per lock file name: the artifact file, its lock directory, and
                \* whether this process's proper-lockfile has the lock registered
    holders,    \* per prefix: who acquired the target's lock and has not released it
    sweep,      \* the running (or last) cleanupStaleLocks / cleanupFileLocks call
    \* ---- documentFile at the granularity of addDocumentation ----
    text,       \* the content of the source file on disk
    addDoc      \* the running (or last) documentFile call with its addDocumentation

lockVars == <<artifact, lockDir, locks, lockMtime, lockObj, procOf, alive, pc, optRetries,
              attempts, err, calls, acquiredAt, hist>>

dirVars == <<tmpDir, holders, sweep>>

textVars == <<text, addDoc>>

imVars == <<workspaceFolders, markers, partitions, indexFiles, api, dirVars, textVars>>

ixVars == <<fileKind, mtimeMs, store, ixLock, stack, ret, ixCalls, cur, prev, imVars>>

vars == <<now, lockVars, ixVars>>

None == "none"

(***************************************************************************)
(* Bounds of the model                                                     *)
(***************************************************************************)
\* Last tick of the clock.
MaxTime == 4
\* options.stale / defaultStaleTime (600000 ms), in ticks.
StaleTime == 2
\* proper-lockfile's default `stale` of check() (10000 ms), in ticks.
CheckStale == 0
\* Largest explicit options.retries a caller passes in the model.
MaxOptRetries == 1
\* Number of acquireLock calls one context makes.
MaxCalls == 2
\* Last tick of the clock while indexing and documenting.
IxMaxTime == 2
\* Number of top-level indexPath calls one context makes.
MaxIxCalls == 2
\* Number of top-level documentPath calls one context makes.
MaxDocCalls == 1
\* Number of top-level indexPath calls one context makes on a disk that can
\* refuse writes.
MaxFsCalls == 1
\* Last tick of the clock for the direct callers of the IndexManager.
ImMaxTime == 1
\* Largest maxAgeMs a caller passes to isFileInfoValid.
ImMaxAgeMs == 1
\* Last tick of the clock for the callers of the cleanup functions.
DirMaxTime == 3
\* Largest maxAgeMs a caller passes to cleanupStaleLocks.
DirMaxAgeMs == 1
\* Last tick of the clock while two contexts index the same file.
RaceMaxTime == 1
\* Number of indexPath calls one of the two contexts makes.
MaxRaceCalls == 1
\* Number of documentPath calls one context makes on the same file.
MaxRedocCalls == 2

(***************************************************************************)
(* Contexts and processes                                                  *)
(***************************************************************************)
Ctx == {"c1", "c2"}
Procs == {"p1", "p2"}
\* The two contexts are two call sites of one extension host (one process, one
\* proper-lockfile registry) or two editor windows (two processes).
Proc(c) == procOf[c]

\* options.retries as the caller passes it; Unset is an absent option.
Unset == 0 - 1
RetryOptions == {Unset} \cup (0 .. MaxOptRetries)

\* defaultLockOptions.retries
DefaultRetries == 5

\* const retries = options.retries || this.defaultLockOptions.retries
EffectiveRetries(opt) == IF opt = Unset \/ opt = 0 THEN DefaultRetries ELSE opt

\* A lock manager that never regards a lock directory as stale.
LockOptionsNeverStale == MaxTime + 1

\* lockOptions.stale handed to lockfile.lock
LockOptionsStale == StaleTime

\* proper-lockfile: update = stale / 2
UpdateEvery == LockOptionsStale \div 2

\* proper-lockfile isLockStale: stat.mtime < Date.now() - options.stale
IsLockStale(mtime, stale) == mtime < now - stale

\* lockfile.check(lockFilePath): the lock directory exists and is not stale
\* by check's own default threshold.
LockfileCheck == lockDir.exists /\ ~IsLockStale(lockDir.mtime, CheckStale)

\* checkStaleLock: age of the artifact file against staleTime
CheckStaleLock == artifact.exists /\ (now - artifact.mtime) > StaleTime

Absent == [exists |-> FALSE, mtime |-> 0]
File(t) == [exists |-> TRUE, mtime |-> t]

(***************************************************************************)
(* The project tree, the index store and the results of the calls          *)
(***************************************************************************)
\* The contexts that index and document. Other editor windows take part only
\* as holders of locks: they decide how acquireLock ends.
IxCtx == {"x1"}

\* The project: directory D with the entries F (a source file), N (a
\* directory that matches an ignore pattern, such as node_modules/x or
\* .cache) and, in some projects, G (a text file that is no source file).
Paths == {"D", "F", "G", "N"}
Dirs == {"D", "N"}
Files == Paths \ Dirs

\* fs.promises.readdir(p)
Exists(p) == p \in Dirs \/ fileKind[p] # "absent"
Entries(p) == IF p = "D" THEN SelectSeq(<<"F", "N", "G">>, Exists) ELSE <<>>

\* isPathIgnored: N matches one of the patterns, the other paths match none
IsPathIgnored(p) == p = "N"

\* SUPPORTED_EXTENSIONS.has(ext)
SupportedExtension(p) == p = "F"

FileKinds == {"text", "binary", "empty", "large"}

\* JavaScript's null
Null == [null |-> TRUE]

\* What updateFileInfo builds: { filePath, docstring, description, members,
\* isDirectory, timestamp: Date.now() }
FileInfo(p, docstring, description, members) ==
    [filePath |-> p, docstring |-> docstring, description |-> description,
     members |-> members, isDirectory |-> p \in Dirs, timestamp |-> now]

\* What indexFile returns for a binary, empty or large file, without storing
\* it: { filePath, docstring, description, members: [], timestamp: Date.now() }
Stub(p, docstring, description) ==
    [filePath |-> p, docstring |-> docstring, description |-> description,
     members |-> <<>>, timestamp |-> now]

\* isFileInfoValid(filePath, maxAgeMs = 0)
MaxAgeMs == 0

\* isFileInfoValid: a record exists and (Date.now() - timestamp) <= maxAgeMs
IsFileInfoValid(p) ==
    /\ store[p] # Null
    /\ (now - store[p].timestamp) <= MaxAgeMs

\* getFileInfo: the parsed content of the index file, or null
GetFileInfo(p) == store[p]

\* updateFileInfo: writeFileSync of the record; when the write fails the error
\* is caught and logged, and the record on disk stays as it was
UpdateFileInfo(p, info, writeOk) ==
    store' = IF writeOk THEN [store EXCEPT ![p] = info] ELSE store

\* info.lastDocumentedTime || 0
LastDocumentedTime(info) ==
    IF "lastDocumentedTime" \in DOMAIN info THEN info.lastDocumentedTime ELSE 0

\* info.isDirectory ? 'directory' : 'file' (undefined counts as false)
MemberType(info) ==
    IF "isDirectory" \in DOMAIN info /\ info.isDirectory THEN "directory" ELSE "file"

\* indexDirectory's member: { type, name: basename(filePath), description: docstring }
Member(info) ==
    [type |-> MemberType(info), name |-> info.filePath, description |-> info.docstring]

\* indexDirectory's maxUpdateTime: it starts at 0 and is raised only when
\* pathInfo.updateTime > maxUpdateTime; no record has a field updateTime
\* (updateFileInfo writes `timestamp`), so the comparison with undefined is
\* false every time.
UpdateTimeGreater(info, maxUpdateTime) ==
    "updateTime" \in DOMAIN info /\ info.updateTime > maxUpdateTime

\* The text the oracle answers with; its content plays no part in the control flow.
OracleDocstring == "docstring"
OracleDescription == "description"

\* documentFile and documentDirectory hand the whole info object to
\* updateFileInfo as its `docstring` argument.
InfoObject == "[info object]"

\* How a call ended: it returned a value or threw.
NoResult == [kind |-> "none"]
Value(v) == [kind |-> "value", val |-> v]
Error(code) == [kind |-> "error", code |-> code]
IsError(r) == r.kind = "error"
IsRecord(r) == r.kind = "value" /\ r.val # Null

\* documentation results { success, path, type, message }
DocResult(p, success, message) == [success |-> success, path |-> p, message |-> message]

\* The lock a function takes: acquireLock(path, prefix, ...)
Prefix(fn) ==
    CASE fn = "indexFile" -> "documentor_file"
      [] fn = "indexDirectory" -> "documentor_index_dir"
      [] fn = "documentFile" -> "documentor_doc_file"
      [] fn = "documentDirectory" -> "documentor_doc_dir"

LockKeys ==
    {<<Prefix("indexFile"), p>> : p \in Files} \cup
    {<<Prefix("indexDirectory"), p>> : p \in Dirs} \cup
    {<<Prefix("documentFile"), p>> : p \in Files} \cup
    {<<Prefix("documentDirectory"), p>> : p \in Dirs}

\* The frame of a pending call: its function, its argument, where it stands
\* and its locals.
Frame(fn, p, l) ==
    [fn |-> fn, path |-> p, pc |-> l,
     i |-> 0,                \* entries looked at so far
     members |-> <<>>,       \* members / filesResults collected so far
     maxUpdateTime |-> 0,
     recursive |-> FALSE,
     held |-> FALSE,         \* `release` is set
     info |-> Null,          \* indexInfo / directoryInfo
     pending |-> NoResult,   \* what the call is about to return or throw
     lockRes |-> "none",     \* how acquireLock ended
     asked |-> FALSE,        \* the call invoked the oracle
     wrote |-> FALSE]        \* the call changed the record of its path

NoRet == [fn |-> "none", path |-> "none", res |-> NoResult, lockRes |-> "none",
          asked |-> FALSE, wrote |-> FALSE]

\* Facts about a top-level call: the paths it asked the oracle about, the paths
\* whose record it changed, the paths for which an oracle call failed, the
\* paths whose record an indexer could not write, how it ended, and the files
\* modified after it ended.
NoCall == [op |-> "none", path |-> "none", asked |-> {}, wrote |-> {},
           oracleFailed |-> {}, writeFailed |-> {}, res |-> NoResult, touched |-> {}]

\* documentFile's result when it has written the documented content
Documented(p) == Value(DocResult(p, TRUE, "successfully documented"))

\* What is remembered of a top-level call once the next one starts.
Summary(call) ==
    [op |-> call.op, path |-> call.path,
     record |-> IsRecord(call.res),
     documented |-> call.res = Documented(call.path),
     asked |-> call.path \in call.asked,
     wrote |-> call.path \in call.wrote,
     touched |-> call.touched]

(***************************************************************************)
(* The IndexManager: project ids, index files, records                     *)
(***************************************************************************)
\* An absolute path is the sequence of its names; <<>> is the root directory.
\* Two project directories side by side, /w/app and /w/lib, each with a file f.
AppRoot == <<"w", "app">>
LibRoot == <<"w", "lib">>
ProjectRoots == {AppRoot, LibRoot}
Tree == ProjectRoots \cup {Append(r, "f") : r \in ProjectRoots}

\* The paths of a project: its root directory and everything beneath it
PathsOf(root) == {q \in Tree : Len(root) <= Len(q) /\ SubSeq(q, 1, Len(root)) = root}

\* path.dirname: the root directory is its own parent
Dirname(q) == IF q = <<>> THEN <<>> ELSE SubSeq(q, 1, Len(q) - 1)

\* path.basename
Basename(q) == IF q = <<>> THEN "" ELSE q[Len(q)]

\* absolutePath.startsWith(fsPath), a comparison of strings. No name in this
\* tree is the beginning of another name, so the strings compare as the
\* sequences of names do.
StartsWith(q, folder) == Len(folder) <= Len(q) /\ SubSeq(q, 1, Len(folder)) = folder

\* The path as a string
RECURSIVE PathText(_)
PathText(q) ==
    IF q = <<>> THEN "/"
    ELSE IF Len(q) = 1 THEN "/" \o q[1]
    ELSE PathText(Dirname(q)) \o "/" \o Basename(q)

\* crypto.createHash('md5').update(projectRoot).digest('hex').substring(0, 8):
\* different roots of this tree get different digests.
Md5(q) == "md5(" \o PathText(q) \o ")"

\* The workspace folders that contain the path
FoldersOf(q) == {f \in workspaceFolders : StartsWith(q, f)}

\* The loop over markers: go up from the directory `dir` until a directory
\* with .git or package.json, or the root directory, is reached.
RECURSIVE MarkerWalk(_)
MarkerWalk(dir) ==
    IF dir = Dirname(dir) THEN dir
    ELSE IF dir \in markers THEN dir
    ELSE MarkerWalk(Dirname(dir))

\* projectRoot of getProjectId and getIndexFilePaths: the longest workspace
\* folder that the path starts with; without one, the marker loop, which
\* starts at path.dirname(absolutePath).
ProjectRootOf(q) ==
    IF FoldersOf(q) # {}
      THEN CHOOSE f \in FoldersOf(q) : \A g \in FoldersOf(q) : Len(g) <= Len(f)
      ELSE MarkerWalk(Dirname(q))

\* getProjectId
GetProjectId(q) == Md5(ProjectRootOf(q)) \o "-" \o Basename(ProjectRootOf(q))

\* relativePath.split(path.sep).join('_')
RECURSIVE JoinNames(_)
JoinNames(names) ==
    IF names = <<>> THEN ""
    ELSE IF Len(names) = 1 THEN names[1]
    ELSE names[1] \o "_" \o JoinNames(Tail(names))

\* getIndexFilePaths: { projectIndexDir, indexFilePath }
GetIndexFilePaths(q) ==
    LET root == ProjectRootOf(q)
        relativePath == IF StartsWith(q, root) THEN SubSeq(q, Len(root) + 1, Len(q)) ELSE q
    IN  [projectIndexDir |-> GetProjectId(q),
         indexFilePath |-> <<GetProjectId(q), JoinNames(relativePath) \o ".json">>]

\* The docstrings the callers pass to updateFileInfo.
Docstrings == {OracleDocstring}

\* The fileInfo object updateFileInfo builds
NewFileInfo(q, docstring) ==
    [filePath |-> q, docstring |-> docstring, description |-> "", members |-> <<>>,
     isDirectory |-> q \in ProjectRoots, timestamp |-> now]

\* An index file that cannot be read or parsed (torn write, foreign content).
Garbage == [garbage |-> TRUE]

NoFiles == [loc \in {} |-> Null]

\* An uncaught getFileInfo: reading or parsing a damaged file throws.
GetFileInfoUncaught(q) ==
    LET loc == GetIndexFilePaths(q).indexFilePath
    IN  IF loc \notin DOMAIN indexFiles THEN [val |-> Null, raised |-> FALSE]
        ELSE IF indexFiles[loc] = Garbage THEN [val |-> Null, raised |-> TRUE]
        ELSE [val |-> indexFiles[loc], raised |-> FALSE]

\* getFileInfo: existsSync, readFileSync, JSON.parse inside try; the catch
\* logs; return null
GetFileInfoOf(q) ==
    LET loc == GetIndexFilePaths(q).indexFilePath
    IN  IF loc \in DOMAIN indexFiles /\ indexFiles[loc] # Garbage
          THEN [val |-> indexFiles[loc], raised |-> FALSE]
          ELSE [val |-> Null, raised |-> FALSE]

\* What getFileInfo returns now
FileInfoOnDisk(q) == GetFileInfoOf(q).val

\* An isFileInfoValid that takes the 7 days of its doc comment for every call:
\* no record in the model is that old.
IsFileInfoValidForAWeek(q, maxAgeMs) == FileInfoOnDisk(q) # Null

\* isFileInfoValid(filePath, maxAgeMs)
IsFileInfoValidWithin(q, maxAgeMs) ==
    LET fileInfo == FileInfoOnDisk(q)
    IN  IF fileInfo = Null THEN FALSE
        ELSE LET age == now - fileInfo.timestamp
             IN  age <= maxAgeMs

\* The IndexManager call that just returned: its name and arguments, what it
\* returned, whether it threw, and (updateFileInfo) what getFileInfo returned
\* before the call and whether the write succeeded.
ApiResult(op, q, arg, val, raised, old, saved) ==
    [op |-> op, path |-> q, arg |-> arg, val |-> val, raised |-> raised,
     old |-> old, saved |-> saved]

\* A returned true or false
Boolean(b) == [boolean |-> b]

NoApi == ApiResult("none", <<>>, 0, Null, FALSE, Null, FALSE)

(***************************************************************************)
(* The lock files in tmpDir                                                *)
(***************************************************************************)
\* The file both indexFile and documentFile lock, each under its own prefix.
Target == Append(AppRoot, "f")

\* this.defaultPrefix
DefaultPrefix == "documentor_lock"

TargetPrefixes == {Prefix("indexFile"), Prefix("documentFile")}

\* A prefix as the words its underscores separate
Words(prefix) ==
    CASE prefix = "documentor_file" -> <<"documentor", "file">>
      [] prefix = "documentor_index_dir" -> <<"documentor", "index", "dir">>
      [] prefix = "documentor_doc_file" -> <<"documentor", "doc", "file">>
      [] prefix = "documentor_doc_dir" -> <<"documentor", "doc", "dir">>
      [] prefix = "documentor_lock" -> <<"documentor", "lock">>

\* normalizePath: every / \ : becomes _
NormalizePath(q) == "_" \o JoinNames(q)

\* generateHash(filePath)
GenerateHash(q) == Md5(q)

\* A getLockFilePath that leaves the caller's prefix out of the name.
GetLockFilePathOfTarget(filePath, prefix) ==
    Words(DefaultPrefix) \o <<GenerateHash(filePath), NormalizePath(filePath) \o ".lock">>

\* getLockFilePath: `${prefix}_${hashPath}_${normalizedPath}.lock`, as the
\* words of that name
GetLockFilePath(filePath, prefix) ==
    Words(prefix) \o <<GenerateHash(filePath), NormalizePath(filePath) \o ".lock">>

\* The lock file of the target under each prefix
LockFileOf == [prefix \in TargetPrefixes \cup {DefaultPrefix} |->
                 GetLockFilePath(Target, prefix)]

LockFileNames == {LockFileOf[prefix] : prefix \in DOMAIN LockFileOf}

\* What tmpDir holds for a lock file name: the artifact <name>, proper-
\* lockfile's directory <name>.lock, and whether locks[<name>] is registered
\* in the process that calls the cleanup functions.
NoLockFile == [file |-> Absent, dir |-> Absent, mine |-> FALSE]

\* Nobody holds the lock of (Target, prefix); `refused`: the last acquireLock
\* for it gave up.
NoHolder == [who |-> None, refused |-> FALSE]

NoSweep == [op |-> "none", pc |-> "idle", now |-> 0, maxAgeMs |-> 0, prefixes |-> {},
            todo |-> <<>>, removed |-> 0, failed |-> 0, total |-> 0,
            old |-> {}, gone |-> {}]

DirInit ==
    /\ tmpDir = [n \in LockFileNames |-> NoLockFile]
    /\ holders = [prefix \in TargetPrefixes |-> NoHolder]
    /\ sweep = NoSweep

(***************************************************************************)
(* The content of a source file                                            *)
(***************************************************************************)
\* const MAX_ATTEMPTS = 3
MAX_ATTEMPTS == 3

\* A content is what it says (`body`) and whether it equals
\* content.trim() + '\n' (`tidy`).
Original(tidy) == [body |-> "original", tidy |-> tidy]

\* parsed.content of an oracle answer
Generated == [body |-> "generated", tidy |-> FALSE]

\* docResult.content.trim() + '\n'
Trim(content) == [content EXCEPT !.tidy = TRUE]

NoAddDoc ==
    [pc |-> "idle",
     canValidate |-> FALSE,       \* vscode.Uri, vscode.languages.getDiagnostics exist
     content |-> Original(TRUE),  \* what documentFile read from the file
     attempts |-> 0,
     documentedContent |-> Original(TRUE),
     originalContent |-> Original(TRUE),  \* what the validation put aside
     success |-> FALSE,
     produced |-> FALSE,          \* the last attempt got content from the oracle
     verdict |-> "none",          \* validateFileSyntax on the generated content
     res |-> NoResult]            \* what documentFile returned

AddDocInit ==
    /\ text = Original(TRUE)
    /\ addDoc = NoAddDoc

\* No direct caller of the IndexManager, nothing under baseIndexDir, no lock
\* file in tmpDir.
ImInit ==
    /\ markers = ProjectRoots
    /\ partitions = {}
    /\ indexFiles = NoFiles
    /\ api = NoApi
    /\ DirInit
    /\ AddDocInit

IndexInit ==
    /\ fileKind \in [Files -> FileKinds \cup {"absent"}]
    /\ fileKind["F"] # "absent"
    /\ fileKind["G"] \in {"text", "absent"}
    /\ mtimeMs = [p \in Paths |-> 0]
    /\ store = [p \in Paths |-> Null]
    /\ ixLock = [k \in LockKeys |-> None]
    /\ stack = [c \in IxCtx |-> <<>>]
    /\ ret = [c \in IxCtx |-> NoRet]
    /\ ixCalls = [c \in IxCtx |-> 0]
    /\ cur = [c \in IxCtx |-> NoCall]
    /\ prev = [c \in IxCtx |-> Summary(NoCall)]

LockInit ==
    /\ artifact = Absent
    /\ lockDir = Absent
    /\ locks = [p \in Procs |-> None]
    /\ lockMtime = [p \in Procs |-> 0]
    /\ lockObj = [c \in Ctx |-> "none"]
    /\ procOf \in {[c \in Ctx |-> "p1"], [c \in Ctx |-> IF c = "c1" THEN "p1" ELSE "p2"]}
    /\ alive = [p \in Procs |-> TRUE]
    /\ pc = [c \in Ctx |-> "idle"]
    /\ optRetries = [c \in Ctx |-> Unset]
    /\ attempts = [c \in Ctx |-> 0]
    /\ err = [c \in Ctx |-> "none"]
    /\ calls = [c \in Ctx |-> 0]
    /\ acquiredAt = [c \in Ctx |-> 0]
    /\ hist = [createFailed |-> [c \in Ctx |-> FALSE],
               staleStart |-> [c \in Ctx |-> FALSE]]

\* The lock manager on its own: the project is left alone.
Init ==
    /\ now = 0
    /\ LockInit
    /\ IndexInit
    /\ ImInit /\ workspaceFolders = {}
    /\ fileKind = [f \in Files |-> "text"]

Live(c) == alive[Proc(c)]

\* The call is over: its locals are gone.
EndCall(c) ==
    /\ optRetries' = [optRetries EXCEPT ![c] = Unset]
    /\ attempts' = [attempts EXCEPT ![c] = 0]

\* A catch block that wraps what it caught in a new Error without a code.
ThrowUncoded(c, code) ==
    /\ pc' = [pc EXCEPT ![c] = "failed"]
    /\ err' = [err EXCEPT ![c] = "EUNKNOWN"]
    /\ EndCall(c)

\* acquireLock's catch block: log and rethrow
Throw(c, code) ==
    /\ pc' = [pc EXCEPT ![c] = "failed"]
    /\ err' = [err EXCEPT ![c] = code]
    /\ EndCall(c)

Goto(c, l) == pc' = [pc EXCEPT ![c] = l] /\ UNCHANGED <<err, optRetries, attempts>>

\* What a step of acquireLock that only reads the file system leaves alone.
ReadOnly == UNCHANGED <<ixVars, now, artifact, lockDir, locks, lockMtime, lockObj, procOf,
                        alive, calls, acquiredAt, hist>>

(***************************************************************************)
(* acquireLock, first await: ensureLockFileExists(lockFilePath)            *)
(***************************************************************************)
AcquireLock(c, opt, ok) ==
    /\ Live(c) /\ pc[c] \in {"idle", "failed"}
    /\ calls[c] < MaxCalls
    /\ calls' = [calls EXCEPT ![c] = @ + 1]
    /\ hist' = [hist EXCEPT
                  !.createFailed[c] = ~artifact.exists /\ ~ok,
                  !.staleStart[c] = /\ lockDir.exists
                                    /\ IsLockStale(lockDir.mtime, StaleTime)
                                    /\ \E p \in Procs : ~alive[p]]
    /\ IF artifact.exists \/ ok
         THEN /\ artifact' = IF artifact.exists THEN artifact ELSE File(now)
              /\ pc' = [pc EXCEPT ![c] = "check"]
              /\ err' = [err EXCEPT ![c] = "none"]
              /\ optRetries' = [optRetries EXCEPT ![c] = opt]
              /\ attempts' = [attempts EXCEPT ![c] = 0]
         ELSE UNCHANGED artifact /\ Throw(c, "EIO")
    /\ UNCHANGED <<ixVars, now, procOf, lockDir, locks, lockMtime, lockObj, alive, acquiredAt>>

\* if (await lockfile.check(lockFilePath)) -- realpath of a missing artifact throws
CheckLocked(c) ==
    /\ Live(c) /\ pc[c] = "check"
    /\ IF ~artifact.exists THEN Throw(c, "ENOENT")
       ELSE IF LockfileCheck THEN Goto(c, "stat") ELSE Goto(c, "lock")
    /\ ReadOnly

\* const { isStale, age } = await this.checkStaleLock(lockFilePath, staleTime)
StatArtifact(c) ==
    /\ Live(c) /\ pc[c] = "stat"
    /\ IF CheckStaleLock THEN Goto(c, "cl_check1") ELSE Goto(c, "lock")
    /\ ReadOnly

(***************************************************************************)
(* cleanupStaleLockFile; every error inside it is caught and logged        *)
(***************************************************************************)
CleanupCheck1(c) ==
    /\ Live(c) /\ pc[c] = "cl_check1"
    /\ IF ~artifact.exists THEN Goto(c, "lock")
       ELSE IF LockfileCheck THEN Goto(c, "cl_unlock") ELSE Goto(c, "cl_check2")
    /\ ReadOnly

\* The registered lock object of process p is dropped (lock.released = true,
\* delete locks[file]).
DropLock(p) ==
    /\ lockObj' = [lockObj EXCEPT ![locks[p]] = "released"]
    /\ locks' = [locks EXCEPT ![p] = None]
    /\ lockMtime' = [lockMtime EXCEPT ![p] = 0]

\* proper-lockfile unlock(file): only a lock of this process's registry can be
\* unlocked; otherwise ENOTACQUIRED, which .catch() logs.
Unlock(p) ==
    IF locks[p] = None
      THEN UNCHANGED <<lockDir, locks, lockMtime, lockObj>>
      ELSE DropLock(p) /\ lockDir' = Absent

CleanupUnlock(c) ==
    /\ Live(c) /\ pc[c] = "cl_unlock"
    /\ IF ~artifact.exists THEN UNCHANGED <<lockDir, locks, lockMtime, lockObj>>
       ELSE Unlock(Proc(c))
    /\ Goto(c, "cl_check2")
    /\ UNCHANGED <<ixVars, now, artifact, procOf, alive, calls, acquiredAt, hist>>

CleanupCheck2(c) ==
    /\ Live(c) /\ pc[c] = "cl_check2"
    /\ IF ~artifact.exists THEN Goto(c, "lock")
       ELSE IF LockfileCheck THEN Goto(c, "cl_unlink") ELSE Goto(c, "cl_ensure")
    /\ ReadOnly

\* await fs.promises.unlink(lockFilePath)
CleanupUnlink(c) ==
    /\ Live(c) /\ pc[c] = "cl_unlink"
    /\ IF artifact.exists
         THEN artifact' = Absent /\ Goto(c, "cl_ensure")
         ELSE UNCHANGED artifact /\ Goto(c, "lock")
    /\ UNCHANGED <<ixVars, now, lockDir, locks, lockMtime, lockObj, procOf, alive, calls,
                   acquiredAt, hist>>

\* await this.ensureLockFileExists(lockFilePath) inside the cleanup
CleanupEnsure(c, ok) ==
    /\ Live(c) /\ pc[c] = "cl_ensure"
    /\ IF artifact.exists
         THEN ok /\ UNCHANGED <<artifact, hist>>
         ELSE IF ok THEN artifact' = File(now) /\ UNCHANGED hist
              ELSE /\ UNCHANGED artifact
                   /\ hist' = [hist EXCEPT !.createFailed[c] = TRUE]
    /\ Goto(c, "lock")
    /\ UNCHANGED <<ixVars, now, lockDir, locks, lockMtime, lockObj, procOf, alive, calls,
                   acquiredAt>>

(***************************************************************************)
(* lockfile.lock(lockFilePath, lockOptions)                                *)
(***************************************************************************)
\* resolveCanonicalPath: realpath of the artifact, once, before the retries
LockRealpath(c) ==
    /\ Live(c) /\ pc[c] = "lock"
    /\ IF artifact.exists THEN Goto(c, "mkdir") ELSE Throw(c, "ENOENT")
    /\ ReadOnly

\* the lock is taken: locks[file] = lock, the release closure is returned
Acquired(c) ==
    /\ lockDir' = File(now)
    /\ locks' = [locks EXCEPT ![Proc(c)] = c]
    /\ lockMtime' = [lockMtime EXCEPT ![Proc(c)] = now]
    /\ lockObj' = [lockObj EXCEPT ![c] = "active"]
    /\ acquiredAt' = [acquiredAt EXCEPT ![c] = now]
    /\ pc' = [pc EXCEPT ![c] = "held"]
    /\ UNCHANGED err
    /\ EndCall(c)

\* operation.retry(err): another attempt after the backoff, or mainError()
AttemptFailed(c) ==
    /\ IF attempts[c] < EffectiveRetries(optRetries[c])
         THEN /\ attempts' = [attempts EXCEPT ![c] = @ + 1]
              /\ pc' = [pc EXCEPT ![c] = "mkdir"]
              /\ UNCHANGED <<err, optRetries>>
         ELSE Throw(c, "ELOCKED")
    /\ UNCHANGED <<lockDir, locks, lockMtime, lockObj, acquiredAt>>

\* fs.mkdir(lockfilePath)
LockMkdir(c) ==
    /\ Live(c) /\ pc[c] = "mkdir"
    /\ IF ~lockDir.exists THEN Acquired(c)
       ELSE /\ Goto(c, "lstat")
            /\ UNCHANGED <<lockDir, locks, lockMtime, lockObj, acquiredAt>>
    /\ UNCHANGED <<ixVars, now, artifact, procOf, alive, calls, hist>>

\* EEXIST: fs.stat(lockfilePath), then isLockStale(stat, options)
LockStat(c) ==
    /\ Live(c) /\ pc[c] = "lstat"
    /\ IF ~lockDir.exists
         THEN /\ Goto(c, "mkdir0")
              /\ UNCHANGED <<lockDir, locks, lockMtime, lockObj, acquiredAt>>
         ELSE IF IsLockStale(lockDir.mtime, LockOptionsStale)
                THEN /\ Goto(c, "rm")
                     /\ UNCHANGED <<lockDir, locks, lockMtime, lockObj, acquiredAt>>
                ELSE AttemptFailed(c)
    /\ UNCHANGED <<ixVars, now, artifact, procOf, alive, calls, hist>>

\* removeLock of a stale lock directory
LockRemoveStale(c) ==
    /\ Live(c) /\ pc[c] = "rm"
    /\ lockDir' = Absent
    /\ Goto(c, "mkdir0")
    /\ UNCHANGED <<ixVars, now, artifact, locks, lockMtime, lockObj, procOf, alive, calls,
                   acquiredAt, hist>>

\* acquireLock(file, { ...options, stale: 0 }): mkdir once more, no stale check
LockMkdirAgain(c) ==
    /\ Live(c) /\ pc[c] = "mkdir0"
    /\ IF ~lockDir.exists THEN Acquired(c) ELSE AttemptFailed(c)
    /\ UNCHANGED <<ixVars, now, artifact, procOf, alive, calls, hist>>

(***************************************************************************)
(* The release function acquireLock returned                               *)
(***************************************************************************)
\* release(): ERELEASED when the closure's lock object was already dropped,
\* else unlock(file) of whatever this process has registered for the file.
Release(c) ==
    /\ Live(c) /\ pc[c] = "held"
    /\ IF lockObj[c] = "released" \/ locks[Proc(c)] = None
         THEN /\ lockObj' = [lockObj EXCEPT ![c] = "none"]
              /\ UNCHANGED <<lockDir, locks, lockMtime>>
         ELSE /\ lockObj' = [lockObj EXCEPT ![locks[Proc(c)]] = "released", ![c] = "none"]
              /\ locks' = [locks EXCEPT ![Proc(c)] = None]
              /\ lockMtime' = [lockMtime EXCEPT ![Proc(c)] = 0]
              /\ lockDir' = Absent
    /\ acquiredAt' = [acquiredAt EXCEPT ![c] = 0]
    /\ hist' = [hist EXCEPT !.staleStart[c] = FALSE, !.createFailed[c] = FALSE]
    /\ Goto(c, "idle")
    /\ UNCHANGED <<ixVars, now, artifact, procOf, alive, calls>>

(***************************************************************************)
(* proper-lockfile's update timer of a process that owns the lock          *)
(***************************************************************************)
UpdateDue(p) == alive[p] /\ locks[p] # None /\ now - lockMtime[p] >= UpdateEvery

UpdateLock(p) ==
    /\ UpdateDue(p)
    /\ IF lockDir.exists /\ lockDir.mtime = lockMtime[p]
         THEN /\ lockDir' = File(now)
              /\ lockMtime' = [lockMtime EXCEPT ![p] = now]
              /\ UNCHANGED <<locks, lockObj>>
         ELSE \* compromised: the lock object is dropped
              DropLock(p) /\ UNCHANGED lockDir
    /\ UNCHANGED <<ixVars, now, artifact, procOf, alive, pc, optRetries, attempts, err, calls,
                   acquiredAt, hist>>

Holders == {c \in Ctx : pc[c] = "held"}

\* The process of a lock holder dies: its contexts stop, its timers stop and
\* nothing is released. (A process that dies holding nothing leaves the same
\* files behind as one that is never scheduled again.)
Crash(p) ==
    /\ \A q \in Procs : alive[q]
    /\ \E c \in Holders : Proc(c) = p
    /\ alive' = [alive EXCEPT ![p] = FALSE]
    /\ UNCHANGED <<ixVars, now, artifact, lockDir, locks, lockMtime, lockObj, procOf, pc,
                   optRetries, attempts, err, calls, acquiredAt, hist>>

\* The context is not inside a file-system call: it is outside acquireLock, or
\* in the backoff before a retry.
Waiting(c) == pc[c] \in {"idle", "held", "failed"} \/ (pc[c] = "mkdir" /\ attempts[c] > 0)

\* Time passes. A tick is minutes and a file-system call takes milliseconds,
\* so the clock moves only while every living context waits; a due update
\* timer fires before the clock moves on.
Tick ==
    /\ now < MaxTime
    /\ \A p \in Procs : ~UpdateDue(p)
    /\ \A c \in Ctx : Live(c) => Waiting(c)
    /\ now' = now + 1
    /\ UNCHANGED <<lockVars, ixVars>>

LockNext ==
    \/ \E c \in Ctx, opt \in RetryOptions, ok \in BOOLEAN : AcquireLock(c, opt, ok)
    \/ \E c \in Ctx : CheckLocked(c)
    \/ \E c \in Ctx : StatArtifact(c)
    \/ \E c \in Ctx : CleanupCheck1(c)
    \/ \E c \in Ctx : CleanupUnlock(c)
    \/ \E c \in Ctx : CleanupCheck2(c)
    \/ \E c \in Ctx : CleanupUnlink(c)
    \/ \E c \in Ctx, ok \in BOOLEAN : CleanupEnsure(c, ok)
    \/ \E c \in Ctx : LockRealpath(c)
    \/ \E c \in Ctx : LockMkdir(c)
    \/ \E c \in Ctx : LockStat(c)
    \/ \E c \in Ctx : LockRemoveStale(c)
    \/ \E c \in Ctx : LockMkdirAgain(c)
    \/ \E c \in Ctx : Release(c)
    \/ \E p \in Procs : UpdateLock(p)
    \/ \E p \in Procs : Crash(p)
    \/ Tick

SpecLock == Init /\ [][LockNext]_vars

(***************************************************************************)
(* The call frames of a context                                            *)
(***************************************************************************)
Busy(c) == stack[c] # <<>>
Top(c) == stack[c][Len(stack[c])]
At(c, fn, l) == Busy(c) /\ Top(c).fn = fn /\ Top(c).pc = l
KeyOf(f) == <<Prefix(f.fn), f.path>>

\* the running call moves on
SetTop(c, f) == [stack EXCEPT ![c] = [@ EXCEPT ![Len(@)] = f]]

\* the running call moves on to `await g`
Call(c, f, g) == [stack EXCEPT ![c] = Append([@ EXCEPT ![Len(@)] = f], g)]

\* the running call f ends with result r, which its caller (if any) receives
Return(c, f, r) ==
    /\ stack' = [stack EXCEPT ![c] = SubSeq(@, 1, Len(@) - 1)]
    /\ ret' = [ret EXCEPT ![c] = [fn |-> f.fn, path |-> f.path, res |-> r,
                                  lockRes |-> f.lockRes, asked |-> f.asked,
                                  wrote |-> f.wrote]]
    /\ cur' = IF Len(stack[c]) = 1 THEN [cur EXCEPT ![c].res = r] ELSE cur

\* lockManager.acquireLock as its callers see it: the release function
\* ("held"), or ELOCKED when a context of this or of another window holds the
\* lock until the retries are used up, or another error (the artifact file
\* could not be created).
LockFree(k) == ixLock[k] = None

AcquireOutcomes == {"held", "ELOCKED", "EIO"}

CanEndWith(k, outcome) ==
    /\ outcome = "held" => LockFree(k)
    /\ ~LockFree(k) => outcome = "ELOCKED"

\* A release at the end of the try block instead: skipped when the call throws.
ReleaseAfterTry(f) == f.held /\ f.pending.kind = "value"

\* finally { if (release) await release() }
ReleaseInFinally(f) == f.held

\* What a step of a call leaves alone besides the frames.
IxFrame == UNCHANGED <<now, lockVars, fileKind, ixCalls, prev, imVars>>

(***************************************************************************)
(* Top-level calls: indexPath(p) and documentPath(p, recursive)            *)
(***************************************************************************)
IndexTargets == {"D", "F", "N"}
DocTargets == {"D", "F"}

\* documentPath: stat, then `return documentDirectory(...)` or
\* `return documentFile(...)`
DocumentPathFrame(p, recursive) ==
    IF p \in Dirs
      THEN [Frame("documentDirectory", p, "contents") EXCEPT !.recursive = recursive]
      ELSE Frame("documentFile", p, "acquire")

\* A top-level call starts.
Start(c, op, p, frame) ==
    /\ ~Busy(c)
    /\ ixCalls' = [ixCalls EXCEPT ![c] = @ + 1]
    /\ prev' = [prev EXCEPT ![c] = Summary(cur[c])]
    /\ cur' = [cur EXCEPT ![c] = [NoCall EXCEPT !.op = op, !.path = p]]
    /\ ret' = [ret EXCEPT ![c] = NoRet]
    /\ stack' = [stack EXCEPT ![c] = <<frame>>]
    /\ UNCHANGED <<now, lockVars, fileKind, mtimeMs, store, ixLock, imVars>>

StartIndexPath(c, p) ==
    /\ ixCalls[c] < MaxIxCalls
    /\ Start(c, "indexPath", p, Frame("indexPath", p, "start"))

StartDocumentPath(c, p, recursive) ==
    /\ ixCalls[c] < MaxDocCalls
    /\ recursive \/ p \in Dirs
    /\ Start(c, "documentPath", p, DocumentPathFrame(p, recursive))

(***************************************************************************)
(* indexPath                                                               *)
(***************************************************************************)
\* An indexDirectory that goes for its lock at once, with no child indexed.
IndexerFrameLockFirst(p) ==
    IF p \in Dirs THEN Frame("indexDirectory", p, "acquire")
    ELSE Frame("indexFile", p, "acquire")

IndexerFrame(p) ==
    IF p \in Dirs THEN Frame("indexDirectory", p, "loop")
    ELSE Frame("indexFile", p, "acquire")

\* An indexPath without the isPathIgnored test at its start.
IndexPathOfAnyPath(c) ==
    /\ At(c, "indexPath", "start")
    /\ LET f == Top(c)
           p == f.path
       IN  IF IsFileInfoValid(p) THEN Return(c, f, Value(GetFileInfo(p)))
           ELSE stack' = SetTop(c, IndexerFrame(p)) /\ UNCHANGED <<ret, cur>>
    /\ UNCHANGED <<mtimeMs, store, ixLock>>
    /\ IxFrame

IndexPath(c) ==
    /\ At(c, "indexPath", "start")
    /\ LET f == Top(c)
           p == f.path
       IN  IF IsPathIgnored(p) THEN Return(c, f, Value(Null))
           ELSE IF IsFileInfoValid(p) THEN Return(c, f, Value(GetFileInfo(p)))
           ELSE \* return indexDirectory(...) / return indexFile(...)
                stack' = SetTop(c, IndexerFrame(p)) /\ UNCHANGED <<ret, cur>>
    /\ UNCHANGED <<mtimeMs, store, ixLock>>
    /\ IxFrame

(***************************************************************************)
(* indexFile                                                               *)
(***************************************************************************)
\* An indexFile that looks at the cache only: every file without a valid
\* record goes to the oracle.
IndexFileBodyCacheOnly(f) ==
    IF IsFileInfoValid(f.path)
      THEN [f EXCEPT !.pc = "finally", !.pending = Value(GetFileInfo(f.path))]
      ELSE [f EXCEPT !.pc = "docstring"]

\* indexFile from the lock to the first oracle call: binary, empty and large
\* files and files with a valid record are answered without the oracle.
IndexFileBody(f) ==
    LET p == f.path
    IN  IF fileKind[p] = "binary"
          THEN [f EXCEPT !.pc = "finally", !.pending = Value(Stub(p, "", "Binary file"))]
        ELSE IF fileKind[p] = "empty"
          THEN [f EXCEPT !.pc = "finally",
                         !.pending = Value(Stub(p, "Empty file", "Empty file"))]
        ELSE IF fileKind[p] = "large"
          THEN [f EXCEPT !.pc = "finally", !.pending = Value(Stub(p, "", "Large file"))]
        ELSE IF IsFileInfoValid(p)
          THEN [f EXCEPT !.pc = "finally", !.pending = Value(GetFileInfo(p))]
        ELSE [f EXCEPT !.pc = "docstring"]

\* An indexer that re-throws every lock error, ELOCKED included.
IndexerLockRethrown(f, outcome) ==
    [f EXCEPT !.pc = "finally", !.lockRes = outcome, !.pending = Error(outcome)]

\* catch (error) { if (error.code === 'ELOCKED') return null; throw error; }
IndexerLockFailed(f, outcome) ==
    [f EXCEPT !.pc = "finally", !.lockRes = outcome,
              !.pending = IF outcome = "ELOCKED" THEN Value(Null) ELSE Error(outcome)]

IndexFile(c, outcome) ==
    /\ At(c, "indexFile", "acquire")
    /\ LET f == Top(c)
           k == KeyOf(f)
       IN  /\ CanEndWith(k, outcome)
           /\ IF outcome = "held"
             THEN /\ ixLock' = [ixLock EXCEPT ![k] = c]
                  /\ stack' = SetTop(c, IndexFileBody([f EXCEPT !.held = TRUE,
                                                               !.lockRes = "held"]))
             ELSE /\ UNCHANGED ixLock
                  /\ stack' = SetTop(c, IndexerLockFailed(f, outcome))
    /\ UNCHANGED <<mtimeMs, store, ret, cur>>
    /\ IxFrame

\* An indexer that saves what it has before it throws the oracle's error on.
OracleThrowsAfterSave(c, f) ==
    /\ stack' = SetTop(c, [f EXCEPT !.pc = "finally", !.asked = TRUE, !.wrote = TRUE,
                                    !.pending = Error("oracle")])
    /\ cur' = [cur EXCEPT ![c].asked = @ \cup {f.path},
                          ![c].oracleFailed = @ \cup {f.path},
                          ![c].wrote = @ \cup {f.path}]
    /\ UpdateFileInfo(f.path, FileInfo(f.path, "", "", <<>>), TRUE)

\* An indexer that answers an oracle error with null.
OracleSwallowed(c, f) ==
    /\ stack' = SetTop(c, [f EXCEPT !.pc = "finally", !.asked = TRUE,
                                    !.pending = Value(Null)])
    /\ cur' = [cur EXCEPT ![c].asked = @ \cup {f.path},
                          ![c].oracleFailed = @ \cup {f.path}]
    /\ UNCHANGED store

\* An indexer that undoes the call's writes when the oracle fails: the
\* records written since the top-level call began are removed.
OracleThrowsRollback(c, f) ==
    /\ stack' = SetTop(c, [f EXCEPT !.pc = "finally", !.asked = TRUE,
                                    !.pending = Error("oracle")])
    /\ cur' = [cur EXCEPT ![c].asked = @ \cup {f.path},
                          ![c].oracleFailed = @ \cup {f.path}]
    /\ store' = [p \in Paths |-> IF p \in cur[c].wrote THEN Null ELSE store[p]]

\* The oracle call the frame stands at fails: the error is thrown on.
OracleThrows(c, f) ==
    /\ stack' = SetTop(c, [f EXCEPT !.pc = "finally", !.asked = TRUE,
                                    !.pending = Error("oracle")])
    /\ cur' = [cur EXCEPT ![c].asked = @ \cup {f.path},
                          ![c].oracleFailed = @ \cup {f.path}]
    /\ UNCHANGED store

\* The oracle call the frame stands at answers: on to the next call.
OracleAnswers(c, f, next) ==
    /\ stack' = SetTop(c, [f EXCEPT !.pc = next, !.asked = TRUE])
    /\ cur' = [cur EXCEPT ![c].asked = @ \cup {f.path}]
    /\ UNCHANGED store

\* The last oracle call answers: return indexManager.updateFileInfo(...),
\* which returns the record it built whether or not the write succeeded
OracleDone(c, f, info, writeOk) ==
    /\ UpdateFileInfo(f.path, info, writeOk)
    /\ stack' = SetTop(c, [f EXCEPT !.pc = "finally", !.asked = TRUE,
                                    !.wrote = writeOk, !.pending = Value(info)])
    /\ cur' = [cur EXCEPT ![c].asked = @ \cup {f.path},
                          ![c].wrote = IF writeOk THEN @ \cup {f.path} ELSE @,
                          ![c].writeFailed = IF writeOk THEN @ ELSE @ \cup {f.path}]

\* answerDocstring, generateDetailedDescription, getMembers, updateFileInfo
IndexFileOracle(c, ok, writeOk) ==
    /\ Busy(c) /\ Top(c).fn = "indexFile"
    /\ Top(c).pc \in {"docstring", "description", "members"}
    /\ LET f == Top(c)
       IN  IF ~ok THEN OracleThrows(c, f)
           ELSE IF f.pc = "docstring" THEN OracleAnswers(c, f, "description")
           ELSE IF f.pc = "description" THEN OracleAnswers(c, f, "members")
           ELSE OracleDone(c, f, FileInfo(f.path, OracleDocstring, OracleDescription,
                                          <<>>), writeOk)
    /\ UNCHANGED <<mtimeMs, ixLock, ret>>
    /\ IxFrame

(***************************************************************************)
(* indexDirectory                                                          *)
(***************************************************************************)
\* for (const entry of entries): ignored entries are skipped, the others are
\* handed to indexPath
IndexDirectoryLoop(c) ==
    /\ At(c, "indexDirectory", "loop")
    /\ LET f == Top(c)
           es == Entries(f.path)
           i == f.i + 1
       IN  stack' = IF i > Len(es) THEN SetTop(c, [f EXCEPT !.pc = "acquire"])
                    ELSE IF IsPathIgnored(es[i]) THEN SetTop(c, [f EXCEPT !.i = i])
                    ELSE Call(c, [f EXCEPT !.i = i, !.pc = "child"],
                              Frame("indexPath", es[i], "start"))
    /\ UNCHANGED <<mtimeMs, store, ixLock, ret, cur>>
    /\ IxFrame

\* indexPath(fullPath) is back: a record becomes a member; null is left out;
\* an error is caught and logged ("Failed to process").
IndexDirectoryChild(c) ==
    /\ At(c, "indexDirectory", "child")
    /\ LET f == Top(c)
           r == ret[c].res
       IN  stack' = SetTop(c,
              IF IsRecord(r)
                THEN [f EXCEPT !.pc = "loop",
                               !.members = Append(@, Member(r.val)),
                               !.maxUpdateTime = IF UpdateTimeGreater(r.val, @)
                                                   THEN r.val.updateTime ELSE @]
                ELSE [f EXCEPT !.pc = "loop"])
    /\ ret' = [ret EXCEPT ![c] = NoRet]
    /\ UNCHANGED <<mtimeMs, store, ixLock, cur>>
    /\ IxFrame

\* indexDirectory from the lock to the first oracle call
IndexDirectoryBody(f) ==
    LET p == f.path
    IN  IF /\ IsFileInfoValid(p)
           /\ GetFileInfo(p) # Null
           /\ GetFileInfo(p).timestamp >= f.maxUpdateTime
          THEN [f EXCEPT !.pc = "finally", !.pending = Value(GetFileInfo(p))]
          ELSE [f EXCEPT !.pc = "docstring"]

IndexDirectory(c, outcome) ==
    /\ At(c, "indexDirectory", "acquire")
    /\ LET f == Top(c)
           k == KeyOf(f)
       IN  /\ CanEndWith(k, outcome)
           /\ IF outcome = "held"
             THEN /\ ixLock' = [ixLock EXCEPT ![k] = c]
                  /\ stack' = SetTop(c, IndexDirectoryBody([f EXCEPT !.held = TRUE,
                                                                    !.lockRes = "held"]))
             ELSE /\ UNCHANGED ixLock
                  /\ stack' = SetTop(c, IndexerLockFailed(f, outcome))
    /\ UNCHANGED <<mtimeMs, store, ret, cur>>
    /\ IxFrame

\* answerDocstring, generateDirectoryDescription, updateFileInfo
IndexDirectoryOracle(c, ok, writeOk) ==
    /\ Busy(c) /\ Top(c).fn = "indexDirectory"
    /\ Top(c).pc \in {"docstring", "description"}
    /\ LET f == Top(c)
       IN  IF ~ok THEN OracleThrows(c, f)
           ELSE IF f.pc = "docstring" THEN OracleAnswers(c, f, "description")
           ELSE OracleDone(c, f, FileInfo(f.path, OracleDocstring, OracleDescription,
                                          f.members), writeOk)
    /\ UNCHANGED <<mtimeMs, ixLock, ret>>
    /\ IxFrame

(***************************************************************************)
(* documentFile                                                            *)
(***************************************************************************)
Failed(f, message) ==
    [f EXCEPT !.pc = "finally", !.pending = Value(DocResult(f.path, FALSE, message))]

Succeeded(f, message) ==
    [f EXCEPT !.pc = "finally", !.pending = Value(DocResult(f.path, TRUE, message))]

\* A documentFile that takes the lock of the indexer of the file, which the
\* indexPath it calls needs.
DocumentFileUnderIndexLock(c, outcome) ==
    /\ At(c, "documentFile", "acquire")
    /\ LET f == Top(c)
           k == <<Prefix("indexFile"), f.path>>
       IN  /\ CanEndWith(k, outcome)
           /\ IF outcome = "held"
             THEN /\ ixLock' = [ixLock EXCEPT ![k] = c]
                  /\ stack' = Call(c, [f EXCEPT !.held = TRUE, !.lockRes = "held",
                                                !.pc = "indexed"],
                                   Frame("indexPath", f.path, "start"))
             ELSE /\ UNCHANGED ixLock
                  /\ stack' = SetTop(c,
                       IF outcome = "ELOCKED"
                         THEN [Failed(f, "being documented by another process")
                                 EXCEPT !.lockRes = outcome]
                         ELSE [f EXCEPT !.pc = "finally", !.lockRes = outcome,
                                        !.pending = Error(outcome)])
    /\ UNCHANGED <<mtimeMs, store, ret, cur>>
    /\ IxFrame

DocumentFile(c, outcome) ==
    /\ At(c, "documentFile", "acquire")
    /\ LET f == Top(c)
           k == KeyOf(f)
       IN  /\ CanEndWith(k, outcome)
           /\ IF outcome = "held"
             THEN /\ ixLock' = [ixLock EXCEPT ![k] = c]
                  /\ stack' = Call(c, [f EXCEPT !.held = TRUE, !.lockRes = "held",
                                                !.pc = "indexed"],
                                   Frame("indexPath", f.path, "start"))
             ELSE /\ UNCHANGED ixLock
                  /\ stack' = SetTop(c,
                       IF outcome = "ELOCKED"
                         THEN [Failed(f, "being documented by another process")
                                 EXCEPT !.lockRes = outcome]
                         ELSE [f EXCEPT !.pc = "finally", !.lockRes = outcome,
                                        !.pending = Error(outcome)])
    /\ UNCHANGED <<mtimeMs, store, ret, cur>>
    /\ IxFrame

\* indexPath(filePath) is back: the extension check, the read of
\* fileInfo.lastDocumentedTime (a TypeError when fileInfo is null), the
\* comparison with the file's mtime; any error makes the inner catch return
\* an error result.
DocumentFileIndexed(c) ==
    /\ At(c, "documentFile", "indexed")
    /\ LET f == Top(c)
           p == f.path
           r == ret[c].res
       IN  stack' = SetTop(c,
              IF IsError(r) THEN Failed(f, "error")
              ELSE IF ~SupportedExtension(p) THEN Failed(f, "Unsupported file type")
              ELSE IF r.val = Null THEN Failed(f, "error")
              ELSE IF /\ LastDocumentedTime(r.val) # 0
                      /\ mtimeMs[p] <= LastDocumentedTime(r.val)
                     THEN Succeeded(f, "Not modified since last documentation, skipped")
              ELSE [f EXCEPT !.pc = "addDocumentation", !.info = GetFileInfo(p)])
    /\ ret' = [ret EXCEPT ![c] = NoRet]
    /\ UNCHANGED <<mtimeMs, store, ixLock, cur>>
    /\ IxFrame

DocOutcomes == {"throws", "skipped", "invalid", "valid"}

\* addDocumentation is back: a valid result is written to the file, and when
\* the file had a record, updateFileInfo(filePath, fileInfo) replaces it.
DocumentFileWrite(c, outcome, writeOk) ==
    /\ At(c, "documentFile", "addDocumentation")
    /\ LET f == Top(c)
           p == f.path
       IN  IF outcome = "valid"
             THEN /\ mtimeMs' = [mtimeMs EXCEPT ![p] = now]
                  /\ IF f.info # Null
                       THEN /\ UpdateFileInfo(p, FileInfo(p, InfoObject, "", <<>>), writeOk)
                            /\ stack' = SetTop(c, [Succeeded(f, "successfully documented")
                                                     EXCEPT !.wrote = writeOk])
                            /\ cur' = [cur EXCEPT ![c].wrote =
                                                    IF writeOk THEN @ \cup {p} ELSE @]
                       ELSE /\ stack' = SetTop(c, Succeeded(f, "successfully documented"))
                            /\ UNCHANGED <<store, cur>>
             ELSE /\ stack' = SetTop(c, Failed(f, outcome))
                  /\ UNCHANGED <<mtimeMs, store, cur>>
    /\ UNCHANGED <<ixLock, ret>>
    /\ IxFrame

(***************************************************************************)
(* documentDirectory                                                       *)
(***************************************************************************)
\* processDirectoryContents: documentPath for every entry, ignored or not
DocumentDirectoryContents(c) ==
    /\ At(c, "documentDirectory", "contents")
    /\ LET f == Top(c)
           es == Entries(f.path)
           i == f.i + 1
       IN  stack' = IF ~f.recursive \/ i > Len(es)
                      THEN SetTop(c, [f EXCEPT !.pc = "acquire"])
                      ELSE Call(c, [f EXCEPT !.i = i, !.pc = "content"],
                                DocumentPathFrame(es[i], f.recursive))
    /\ UNCHANGED <<mtimeMs, store, ixLock, ret, cur>>
    /\ IxFrame

\* documentPath(fullPath) is back: its result, or the error it threw, joins
\* filesResults
DocumentDirectoryContent(c) ==
    /\ At(c, "documentDirectory", "content")
    /\ LET f == Top(c)
           r == ret[c].res
           result == IF IsError(r) THEN DocResult(ret[c].path, FALSE, "error") ELSE r.val
       IN  stack' = SetTop(c, [f EXCEPT !.pc = "contents",
                                        !.members = Append(@, result)])
    /\ ret' = [ret EXCEPT ![c] = NoRet]
    /\ UNCHANGED <<mtimeMs, store, ixLock, cur>>
    /\ IxFrame

\* acquireLock(directoryPath, 'documentor_doc_dir'): every failure becomes the
\* documentationResult
DocumentDirectory(c, outcome) ==
    /\ At(c, "documentDirectory", "acquire")
    /\ LET f == Top(c)
           k == KeyOf(f)
       IN  /\ CanEndWith(k, outcome)
           /\ IF outcome = "held"
             THEN /\ ixLock' = [ixLock EXCEPT ![k] = c]
                  /\ stack' = Call(c, [f EXCEPT !.held = TRUE, !.lockRes = "held",
                                                !.pc = "indexed"],
                                   Frame("indexPath", f.path, "start"))
             ELSE /\ UNCHANGED ixLock
                  /\ stack' = SetTop(c,
                       [Failed(f, IF outcome = "ELOCKED"
                                    THEN "being documented by another process"
                                    ELSE "error")
                          EXCEPT !.lockRes = outcome])
    /\ UNCHANGED <<mtimeMs, store, ret, cur>>
    /\ IxFrame

\* hasModifiedFiles: an entry was modified after lastDocTime
HasModifiedFiles(p, lastDocTime) ==
    \E i \in 1 .. Len(Entries(p)) : mtimeMs[Entries(p)[i]] > lastDocTime

\* indexPath(directoryPath) is back
DocumentDirectoryIndexed(c) ==
    /\ At(c, "documentDirectory", "indexed")
    /\ LET f == Top(c)
           p == f.path
           r == ret[c].res
       IN  stack' = SetTop(c,
              IF IsError(r) THEN Failed(f, "error")
              ELSE IF r.val = Null THEN Failed(f, "Skipping directory")
              ELSE IF /\ LastDocumentedTime(r.val) # 0
                      /\ ~HasModifiedFiles(p, LastDocumentedTime(r.val))
                      /\ ~(mtimeMs[p] > LastDocumentedTime(r.val))
                     THEN Succeeded(f, "Not modified since last documentation, skipped")
              ELSE [f EXCEPT !.pc = "document", !.info = r.val])
    /\ ret' = [ret EXCEPT ![c] = NoRet]
    /\ UNCHANGED <<mtimeMs, store, ixLock, cur>>
    /\ IxFrame

\* documentRegularDirectory / documentPythonPackage wrote README.md or
\* __init__.py (documentationSuccess) or failed; then
\* updateFileInfo(directoryPath, directoryInfo)
DocumentDirectoryWrite(c, documentationSuccess, writeOk) ==
    /\ At(c, "documentDirectory", "document")
    /\ LET f == Top(c)
           p == f.path
       IN  IF documentationSuccess
             THEN /\ mtimeMs' = [mtimeMs EXCEPT ![p] = now]
                  /\ UpdateFileInfo(p, FileInfo(p, InfoObject, "", <<>>), writeOk)
                  /\ stack' = SetTop(c, [Succeeded(f, "successfully documented")
                                           EXCEPT !.wrote = writeOk])
                  /\ cur' = [cur EXCEPT ![c].wrote = IF writeOk THEN @ \cup {p} ELSE @]
             ELSE /\ stack' = SetTop(c, Succeeded(f, "successfully documented"))
                  /\ UNCHANGED <<mtimeMs, store, cur>>
    /\ UNCHANGED <<ixLock, ret>>
    /\ IxFrame

(***************************************************************************)
(* The end of a call that took a lock: finally, then return or throw       *)
(***************************************************************************)
Finally(c) ==
    /\ Busy(c) /\ Top(c).pc = "finally"
    /\ LET f == Top(c)
       IN  /\ ixLock' = IF ReleaseInFinally(f) THEN [ixLock EXCEPT ![KeyOf(f)] = None]
                        ELSE ixLock
           /\ Return(c, f, f.pending)
    /\ UNCHANGED <<mtimeMs, store>>
    /\ IxFrame

(***************************************************************************)
(* The environment: another window's locks, the user's edits, the clock    *)
(***************************************************************************)
\* Nobody is inside a call.
Quiet == \A c \in IxCtx : ~Busy(c)

\* The user saves a new content of file p between two calls.
Modifiable == {"F"}

Modify(p) ==
    /\ Quiet
    /\ mtimeMs[p] < now
    /\ mtimeMs' = [mtimeMs EXCEPT ![p] = now]
    /\ cur' = [c \in IxCtx |->
                 IF cur[c].op # "none"
                   THEN [cur[c] EXCEPT !.touched = @ \cup {p}] ELSE cur[c]]
    /\ UNCHANGED <<now, lockVars, fileKind, store, ixLock, stack, ret, ixCalls, prev,
                   imVars>>

\* The call waits for the network: an oracle call or addDocumentation.
AwaitsOracle(c) ==
    Busy(c) /\ Top(c).pc \in {"docstring", "description", "members", "addDocumentation"}

\* Date.now() moves on between two calls and while a call waits for the
\* network; the synchronous stretches and the file-system calls of a call fit
\* into one reading of the clock.
IxTick ==
    /\ now < IxMaxTime
    /\ \A c \in IxCtx : ~Busy(c) \/ AwaitsOracle(c)
    /\ now' = now + 1
    /\ UNCHANGED <<lockVars, ixVars>>

IndexNext ==
    \/ \E c \in IxCtx, p \in IndexTargets : StartIndexPath(c, p)
    \/ \E c \in IxCtx : IndexPath(c)
    \/ \E c \in IxCtx, outcome \in AcquireOutcomes : IndexFile(c, outcome)
    \/ \E c \in IxCtx, ok \in BOOLEAN : IndexFileOracle(c, ok, TRUE)
    \/ \E c \in IxCtx : IndexDirectoryLoop(c)
    \/ \E c \in IxCtx : IndexDirectoryChild(c)
    \/ \E c \in IxCtx, outcome \in AcquireOutcomes : IndexDirectory(c, outcome)
    \/ \E c \in IxCtx, ok \in BOOLEAN : IndexDirectoryOracle(c, ok, TRUE)
    \/ \E c \in IxCtx : Finally(c)
    \/ \E p \in Modifiable : Modify(p)
    \/ IxTick

\* The indexers and documenters on their own: the lock manager's files are
\* left alone, locks are taken and released through ixLock. The disk takes
\* every write of a record.
InitIndex ==
    /\ now = 0
    /\ LockInit
    /\ procOf = [c \in Ctx |-> "p1"]
    /\ IndexInit
    /\ ImInit /\ workspaceFolders = {}
    /\ fileKind["G"] = "text"

\* indexPath calls
SpecIndex == InitIndex /\ [][IndexNext]_vars

DocNext ==
    \/ \E c \in IxCtx, p \in DocTargets, recursive \in BOOLEAN :
          StartDocumentPath(c, p, recursive)
    \/ \E c \in IxCtx, outcome \in AcquireOutcomes : DocumentFile(c, outcome)
    \/ \E c \in IxCtx : DocumentFileIndexed(c)
    \/ \E c \in IxCtx, outcome \in DocOutcomes : DocumentFileWrite(c, outcome, TRUE)
    \/ \E c \in IxCtx : DocumentDirectoryContents(c)
    \/ \E c \in IxCtx : DocumentDirectoryContent(c)
    \/ \E c \in IxCtx, outcome \in AcquireOutcomes : DocumentDirectory(c, outcome)
    \/ \E c \in IxCtx : DocumentDirectoryIndexed(c)
    \/ \E c \in IxCtx, documentationSuccess \in BOOLEAN :
          DocumentDirectoryWrite(c, documentationSuccess, TRUE)
    \/ \E c \in IxCtx : IndexPath(c)
    \/ \E c \in IxCtx, outcome \in AcquireOutcomes : IndexFile(c, outcome)
    \/ \E c \in IxCtx, ok \in BOOLEAN : IndexFileOracle(c, ok, TRUE)
    \/ \E c \in IxCtx : IndexDirectoryLoop(c)
    \/ \E c \in IxCtx : IndexDirectoryChild(c)
    \/ \E c \in IxCtx, outcome \in AcquireOutcomes : IndexDirectory(c, outcome)
    \/ \E c \in IxCtx, ok \in BOOLEAN : IndexDirectoryOracle(c, ok, TRUE)
    \/ \E c \in IxCtx : Finally(c)
    \/ \E p \in Modifiable : Modify(p)
    \/ IxTick

\* A project without G.
InitDoc ==
    /\ now = 0
    /\ LockInit
    /\ procOf = [c \in Ctx |-> "p1"]
    /\ IndexInit
    /\ ImInit /\ workspaceFolders = {}
    /\ fileKind["G"] = "absent"

\* documentPath calls, with the indexPath calls they make
SpecDoc == InitDoc /\ [][DocNext]_vars

(***************************************************************************)
(* documentPath calls on the file F, one after the other.                  *)
(***************************************************************************)
StartRedoc(c) ==
    /\ ixCalls[c] < MaxRedocCalls
    /\ Start(c, "documentPath", "F", DocumentPathFrame("F", TRUE))

RedocNext ==
    \/ \E c \in IxCtx : StartRedoc(c)
    \/ \E c \in IxCtx, outcome \in AcquireOutcomes : DocumentFile(c, outcome)
    \/ \E c \in IxCtx : DocumentFileIndexed(c)
    \/ \E c \in IxCtx, outcome \in DocOutcomes : DocumentFileWrite(c, outcome, TRUE)
    \/ \E c \in IxCtx : IndexPath(c)
    \/ \E c \in IxCtx, outcome \in AcquireOutcomes : IndexFile(c, outcome)
    \/ \E c \in IxCtx, ok \in BOOLEAN : IndexFileOracle(c, ok, TRUE)
    \/ \E c \in IxCtx : Finally(c)
    \/ \E p \in Modifiable : Modify(p)
    \/ IxTick

SpecRedoc == InitDoc /\ [][RedocNext]_vars

(***************************************************************************)
(* indexPath calls on a disk that can refuse the write of a record, in a   *)
(* project whose index may hold a record of the ignored directory N (left  *)
(* by a call that was made without the pattern that excludes N now).       *)
(***************************************************************************)
\* A record updateFileInfo wrote at time 0.
EarlierRecord(p) ==
    [filePath |-> p, docstring |-> OracleDocstring, description |-> OracleDescription,
     members |-> <<>>, isDirectory |-> p \in Dirs, timestamp |-> 0]

StartIndexPathFs(c, p) ==
    /\ ixCalls[c] < MaxFsCalls
    /\ Start(c, "indexPath", p, Frame("indexPath", p, "start"))

FsNext ==
    \/ \E c \in IxCtx, p \in IndexTargets : StartIndexPathFs(c, p)
    \/ \E c \in IxCtx : IndexPath(c)
    \/ \E c \in IxCtx, outcome \in AcquireOutcomes : IndexFile(c, outcome)
    \/ \E c \in IxCtx, ok, writeOk \in BOOLEAN : IndexFileOracle(c, ok, writeOk)
    \/ \E c \in IxCtx : IndexDirectoryLoop(c)
    \/ \E c \in IxCtx : IndexDirectoryChild(c)
    \/ \E c \in IxCtx, outcome \in AcquireOutcomes : IndexDirectory(c, outcome)
    \/ \E c \in IxCtx, ok, writeOk \in BOOLEAN : IndexDirectoryOracle(c, ok, writeOk)
    \/ \E c \in IxCtx : Finally(c)
    \/ IxTick

InitFs ==
    /\ now = 0
    /\ LockInit
    /\ procOf = [c \in Ctx |-> "p1"]
    /\ fileKind \in [Files -> FileKinds \cup {"absent"}]
    /\ fileKind["F"] # "absent"
    /\ fileKind["G"] \in {"text", "absent"}
    /\ mtimeMs = [p \in Paths |-> 0]
    /\ store \in {[p \in Paths |-> Null],
                  [p \in Paths |-> IF p = "N" THEN EarlierRecord(p) ELSE Null]}
    /\ ixLock = [k \in LockKeys |-> None]
    /\ stack = [c \in IxCtx |-> <<>>]
    /\ ret = [c \in IxCtx |-> NoRet]
    /\ ixCalls = [c \in IxCtx |-> 0]
    /\ cur = [c \in IxCtx |-> NoCall]
    /\ prev = [c \in IxCtx |-> Summary(NoCall)]
    /\ ImInit /\ workspaceFolders = {}

SpecIndexFs == InitFs /\ [][FsNext]_vars

(***************************************************************************)
(* Two contexts of one extension host call indexPath on the same file at   *)
(* overlapping times. The lock of the file is what ixLock says; a context   *)
(* that finds it taken waits in proper-lockfile's backoff (a second or      *)
(* more) and tries again, or gives up with ELOCKED.                         *)
(***************************************************************************)
RaceCtx == {"x1", "x2"}

\* indexPath(F) is called while no call of the other context has ended.
StartIndexPathRace(c, p) ==
    /\ ixCalls[c] < MaxRaceCalls
    /\ \A d \in RaceCtx \ {c} : cur[d].res.kind = "none"
    /\ Start(c, "indexPath", p, Frame("indexPath", p, "start"))

\* lockfile.lock finds the lock directory of a holder: a retry is scheduled
LockBackoff(c) ==
    /\ Busy(c) /\ Top(c).pc = "acquire"
    /\ ~LockFree(KeyOf(Top(c)))
    /\ stack' = SetTop(c, [Top(c) EXCEPT !.pc = "backoff"])
    /\ UNCHANGED <<mtimeMs, store, ixLock, ret, cur>>
    /\ IxFrame

\* The retry timer fires: the next attempt
LockRetry(c) ==
    /\ Busy(c) /\ Top(c).pc = "backoff"
    /\ stack' = SetTop(c, [Top(c) EXCEPT !.pc = "acquire"])
    /\ UNCHANGED <<mtimeMs, store, ixLock, ret, cur>>
    /\ IxFrame

\* Date.now() moves on while every running call waits for the network or for
\* its retry timer.
RaceTick ==
    /\ now < RaceMaxTime
    /\ \A c \in RaceCtx : ~Busy(c) \/ AwaitsOracle(c) \/ (Busy(c) /\ Top(c).pc = "backoff")
    /\ now' = now + 1
    /\ UNCHANGED <<lockVars, ixVars>>

RaceNext ==
    \/ \E c \in RaceCtx : StartIndexPathRace(c, "F")
    \/ \E c \in RaceCtx : IndexPath(c)
    \/ \E c \in RaceCtx, outcome \in AcquireOutcomes : IndexFile(c, outcome)
    \/ \E c \in RaceCtx : LockBackoff(c)
    \/ \E c \in RaceCtx : LockRetry(c)
    \/ \E c \in RaceCtx, ok \in BOOLEAN : IndexFileOracle(c, ok, TRUE)
    \/ \E c \in RaceCtx : Finally(c)
    \/ RaceTick

\* F is a text file without a record.
InitRace ==
    /\ now = 0
    /\ LockInit
    /\ procOf = [c \in Ctx |-> "p1"]
    /\ fileKind = [f \in Files |-> IF f = "F" THEN "text" ELSE "absent"]
    /\ mtimeMs = [p \in Paths |-> 0]
    /\ store = [p \in Paths |-> Null]
    /\ ixLock = [k \in LockKeys |-> None]
    /\ stack = [c \in RaceCtx |-> <<>>]
    /\ ret = [c \in RaceCtx |-> NoRet]
    /\ ixCalls = [c \in RaceCtx |-> 0]
    /\ cur = [c \in RaceCtx |-> NoCall]
    /\ prev = [c \in RaceCtx |-> Summary(NoCall)]
    /\ ImInit /\ workspaceFolders = {}

SpecRace == InitRace /\ [][RaceNext]_vars

(***************************************************************************)
(* Two contexts of one extension host document and index the same tree    *)
(* with documentPath and indexPath calls. They meet on the file F; the     *)
(* directory D is walked by one context while the other one makes no call. *)
(* Every pending call is resumed sooner or later (the event loop runs its   *)
(* callbacks, an oracle request answers or fails). All of it happens within *)
(* one reading of the clock.                                                *)
(***************************************************************************)
ConcTargets == {"D", "F"}

\* The context has made no call yet
Fresh(c) == ixCalls[c] = 0

\* The context has made no call on the directory
OnFileOnly(c) == "D" \notin {cur[c].path, prev[c].path}

StartConc(c, op, p) ==
    /\ ixCalls[c] < MaxRaceCalls
    /\ \A d \in RaceCtx \ {c} :
          IF p = "D" THEN Fresh(d) ELSE OnFileOnly(d)
    /\ Start(c, op, p, IF op = "indexPath" THEN Frame("indexPath", p, "start")
                       ELSE DocumentPathFrame(p, TRUE))

\* The steps of the pending call of context c
StepOf(c) ==
    \/ IndexPath(c)
    \/ \E outcome \in AcquireOutcomes : IndexFile(c, outcome)
    \/ \E ok \in BOOLEAN : IndexFileOracle(c, ok, TRUE)
    \/ IndexDirectoryLoop(c)
    \/ IndexDirectoryChild(c)
    \/ \E outcome \in AcquireOutcomes : IndexDirectory(c, outcome)
    \/ \E ok \in BOOLEAN : IndexDirectoryOracle(c, ok, TRUE)
    \/ \E outcome \in AcquireOutcomes : DocumentFile(c, outcome)
    \/ DocumentFileIndexed(c)
    \/ \E outcome \in DocOutcomes : DocumentFileWrite(c, outcome, TRUE)
    \/ DocumentDirectoryContents(c)
    \/ DocumentDirectoryContent(c)
    \/ \E outcome \in AcquireOutcomes : DocumentDirectory(c, outcome)
    \/ DocumentDirectoryIndexed(c)
    \/ \E documentationSuccess \in BOOLEAN :
          DocumentDirectoryWrite(c, documentationSuccess, TRUE)
    \/ LockBackoff(c)
    \/ LockRetry(c)
    \/ Finally(c)

ConcNext ==
    \/ \E c \in RaceCtx, op \in {"indexPath", "documentPath"}, p \in ConcTargets :
          StartConc(c, op, p)
    \/ \E c \in RaceCtx : StepOf(c)

\* D holds the text file F and the ignored directory N.
InitConc == InitRace

SpecConc == InitConc /\ [][ConcNext]_vars /\ \A c \in RaceCtx : WF_vars(StepOf(c))

(***************************************************************************)
(* Direct calls of the IndexManager. Its methods are synchronous: a call   *)
(* is one step. `api` holds the result until the caller has taken it.      *)
(***************************************************************************)
\* What a call of the IndexManager leaves alone.
ImFrame ==
    UNCHANGED <<now, lockVars, fileKind, mtimeMs, store, ixLock, stack, ret, ixCalls, cur,
                prev, workspaceFolders, markers, dirVars, textVars>>

\* An updateFileInfo that does not overwrite an index file that exists.
UpdateFileInfoOnce(q, docstring, writeOk) ==
    /\ api = NoApi
    /\ LET paths == GetIndexFilePaths(q)
           fileInfo == NewFileInfo(q, docstring)
           written == writeOk /\ paths.indexFilePath \notin DOMAIN indexFiles
       IN  /\ partitions' = partitions \cup {paths.projectIndexDir}
           /\ indexFiles' = IF written THEN (paths.indexFilePath :> fileInfo) @@ indexFiles
                            ELSE indexFiles
           /\ api' = ApiResult("updateFileInfo", q, docstring, fileInfo, FALSE,
                               FileInfoOnDisk(q), writeOk)
    /\ ImFrame

\* updateFileInfo: ensureDirExists(projectIndexDir), the fileInfo object,
\* writeFileSync inside try (the catch logs), return fileInfo
UpdateFileInfoCall(q, docstring, writeOk) ==
    /\ api = NoApi
    /\ LET paths == GetIndexFilePaths(q)
           fileInfo == NewFileInfo(q, docstring)
       IN  /\ partitions' = partitions \cup {paths.projectIndexDir}
           /\ indexFiles' = IF writeOk THEN (paths.indexFilePath :> fileInfo) @@ indexFiles
                            ELSE indexFiles
           /\ api' = ApiResult("updateFileInfo", q, docstring, fileInfo, FALSE,
                               FileInfoOnDisk(q), writeOk)
    /\ ImFrame

GetFileInfoCall(q) ==
    /\ api = NoApi
    /\ api' = ApiResult("getFileInfo", q, 0, GetFileInfoOf(q).val, GetFileInfoOf(q).raised,
                        Null, FALSE)
    /\ UNCHANGED <<partitions, indexFiles>>
    /\ ImFrame

IsFileInfoValidCall(q, maxAgeMs) ==
    /\ api = NoApi
    /\ api' = ApiResult("isFileInfoValid", q, maxAgeMs,
                        Boolean(IsFileInfoValidWithin(q, maxAgeMs)), FALSE, Null, FALSE)
    /\ UNCHANGED <<partitions, indexFiles>>
    /\ ImFrame

\* The index files without those in `gone`
Without(gone) == [loc \in DOMAIN indexFiles \ gone |-> indexFiles[loc]]

\* getProjectId(absolutePath): nothing is read but the workspace folders and the
\* markers, nothing is written
GetProjectIdCall(q) ==
    /\ api = NoApi
    /\ api' = ApiResult("getProjectId", q, 0, [projectId |-> GetProjectId(q)], FALSE,
                        Null, FALSE)
    /\ UNCHANGED <<partitions, indexFiles>>
    /\ ImFrame

\* removeFileInfo: unlinkSync of the index file if it exists
RemoveFileInfoCall(q) ==
    /\ api = NoApi
    /\ indexFiles' = Without({GetIndexFilePaths(q).indexFilePath})
    /\ api' = ApiResult("removeFileInfo", q, 0, Null, FALSE, Null, FALSE)
    /\ UNCHANGED partitions
    /\ ImFrame

\* clearProjectIndex(projectPath): the directory baseIndexDir/getProjectId(
\* projectPath), if it exists, is removed with everything in it; an error of
\* removeDirectory is caught and logged (removeOk is false: it failed at its
\* first file).
ClearProjectIndexCall(projectPath, removeOk) ==
    /\ api = NoApi
    /\ LET projectId == GetProjectId(projectPath)
           cleared == projectId \in partitions /\ removeOk
       IN  /\ partitions' = IF cleared THEN partitions \ {projectId} ELSE partitions
           /\ indexFiles' = IF cleared
                              THEN Without({loc \in DOMAIN indexFiles : loc[1] = projectId})
                              ELSE indexFiles
           /\ api' = ApiResult("clearProjectIndex", projectPath, 0, Null, FALSE, Null,
                               projectId \in partitions => removeOk)
    /\ ImFrame

\* The caller has taken the result.
ApiReturn ==
    /\ api # NoApi
    /\ api' = NoApi
    /\ UNCHANGED <<partitions, indexFiles>>
    /\ ImFrame

\* An index file is damaged behind the IndexManager's back.
Damage(loc) ==
    /\ api = NoApi
    /\ loc \in DOMAIN indexFiles /\ indexFiles[loc] # Garbage
    /\ indexFiles' = [indexFiles EXCEPT ![loc] = Garbage]
    /\ UNCHANGED <<partitions, api>>
    /\ ImFrame

\* Date.now() moves on between two calls.
ImTick ==
    /\ api = NoApi
    /\ now < ImMaxTime
    /\ now' = now + 1
    /\ UNCHANGED <<lockVars, ixVars>>

\* The index files the paths of the tree can have
IndexFileNames == {GetIndexFilePaths(q).indexFilePath : q \in Tree}

ImNext ==
    \/ \E q \in Tree, docstring \in Docstrings, writeOk \in BOOLEAN :
          UpdateFileInfoCall(q, docstring, writeOk)
    \/ \E q \in Tree : GetFileInfoCall(q)
    \/ \E q \in Tree, maxAgeMs \in 0 .. ImMaxAgeMs : IsFileInfoValidCall(q, maxAgeMs)
    \/ \E q \in Tree : GetProjectIdCall(q)
    \/ \E q \in Tree : RemoveFileInfoCall(q)
    \/ \E root \in ProjectRoots, removeOk \in BOOLEAN : ClearProjectIndexCall(root, removeOk)
    \/ ApiReturn
    \/ \E loc \in IndexFileNames : Damage(loc)
    \/ ImTick

\* The extension host has both project directories as workspace folders, or
\* none (tests, command line): then the markers decide.
InitIm ==
    /\ now = 0
    /\ LockInit
    /\ procOf = [c \in Ctx |-> "p1"]
    /\ IndexInit
    /\ fileKind = [f \in Files |-> "text"]
    /\ ImInit
    /\ workspaceFolders \in {{}, ProjectRoots}

SpecIm == InitIm /\ [][ImNext]_vars

(***************************************************************************)
(* Direct calls of the IndexManager for paths whose names hold an          *)
(* underscore or lie outside every project: /w/app/a/b and /w/app/a_b in   *)
(* the project /w/app, and /tmp/y, which has no marker above it.           *)
(***************************************************************************)
NestedFile == AppRoot \o <<"a", "b">>
UnderscoreFile == AppRoot \o <<"a_b">>
StrayFile == <<"tmp", "y">>
OtherTree == {NestedFile, UnderscoreFile, StrayFile}

PathsNext ==
    \/ \E q \in OtherTree, docstring \in Docstrings, writeOk \in BOOLEAN :
          UpdateFileInfoCall(q, docstring, writeOk)
    \/ \E q \in OtherTree : GetFileInfoCall(q)
    \/ \E q \in OtherTree : GetProjectIdCall(q)
    \/ \E q \in OtherTree : RemoveFileInfoCall(q)
    \/ ApiReturn
    \/ ImTick

SpecImPaths == InitIm /\ [][PathsNext]_vars

(***************************************************************************)
(* The command extension.clearDocumentationIndex. The IndexManager keeps   *)
(* its partitions in baseIndexDir, which is <tmp>/documentor-indexes when   *)
(* no extension 'yourname.documentor' is installed; no workspace folder    *)
(* and no marker lies on the way from there to the root directory.         *)
(***************************************************************************)
\* getBaseIndexDirectory()
BaseIndexDir == <<"tmp", "documentor-indexes">>

\* getIndexedProjects(): one entry per directory of baseIndexDir, its path the
\* path of that directory.
GetIndexedProjects == {[id |-> d, path |-> BaseIndexDir \o <<d>>] : d \in partitions}

\* What selectProjectForClearIndex can return: null without projects (or when
\* the user closes the list), the path of the only project, else 'ALL' or the
\* path of the project the user picks.
Selections ==
    LET projects == GetIndexedProjects
    IN  IF projects = {} THEN {[label |-> "none", paths |-> {}]}
        ELSE IF Cardinality(projects) = 1
          THEN {[label |-> "one", paths |-> {p.path}] : p \in projects}
        ELSE {[label |-> "none", paths |-> {}],
              [label |-> "ALL", paths |-> {p.path : p \in projects}]}
             \cup {[label |-> "one", paths |-> {p.path}] : p \in projects}

ClearTree == Tree \cup {StrayFile}

\* The command: clearProjectIndex(project.path) for the selected project, or
\* for every entry of getIndexedProjects() after 'ALL'. Each call removes the
\* directory baseIndexDir/getProjectId(project.path) if it exists; removeOk
\* as in ClearProjectIndexCall. The user's choice is `label` and, for one
\* project, the partition that holds the record of q. `api` keeps the ids of
\* the selected partitions and whether a removal failed.
ClearIndexCommand(label, q, removeOk) ==
    /\ api = NoApi
    /\ LET picked == {p \in GetIndexedProjects :
                        label = "ALL" \/ (label = "one" /\ p.id = GetProjectId(q))}
           selected == [label |-> label, paths |-> {p.path : p \in picked}]
           projectIds == {GetProjectId(projectPath) : projectPath \in selected.paths}
           cleared == IF removeOk THEN projectIds \cap partitions ELSE {}
       IN  /\ selected \in Selections
           /\ partitions' = partitions \ cleared
           /\ indexFiles' = Without({loc \in DOMAIN indexFiles : loc[1] \in cleared})
           /\ api' = ApiResult("clearDocumentationIndex", <<>>, {p.id : p \in picked},
                               Null, FALSE, Null,
                               projectIds \cap partitions # {} => removeOk)
    /\ ImFrame

ClearNext ==
    \/ \E q \in ClearTree, docstring \in Docstrings :
          UpdateFileInfoCall(q, docstring, TRUE)
    \/ \E q \in ClearTree : GetFileInfoCall(q)
    \/ \E label \in {"none", "one", "ALL"}, q \in ClearTree, removeOk \in BOOLEAN :
          ClearIndexCommand(label, q, removeOk)
    \/ ApiReturn
    \/ ImTick

SpecClear == InitIm /\ [][ClearNext]_vars

(***************************************************************************)
(* The lock directory: the locks of one target under two prefixes, taken   *)
(* and released by contexts of this process ("here") and of another        *)
(* window ("there", "dead" once that window has crashed), and the cleanup  *)
(* functions called in this process. acquireLock is taken as a whole here  *)
(* (SpecLock has its steps); a cleanup call is one step per entry.         *)
(***************************************************************************)
\* What a step in the lock directory leaves alone.
DirFrame ==
    UNCHANGED <<lockVars, fileKind, mtimeMs, store, ixLock, stack, ret, ixCalls, cur, prev,
                workspaceFolders, markers, partitions, indexFiles, api, textVars>>

\* lockfile.check(lockFilePath) of an artifact that exists
Locked(e) == e.dir.exists /\ ~IsLockStale(e.dir.mtime, CheckStale)

\* cleanupStaleLockFile(lockFilePath) for what tmpDir holds under one name:
\* unlock if check() says locked (only a lock of this process can be
\* unlocked), unlink the artifact if check() still says locked, create the
\* artifact if it is missing. Any error makes it return false. `ok`: the
\* file-system calls that write succeed.
CleanupStaleLockFile(e, ok) ==
    IF ~e.file.exists THEN [entry |-> e, success |-> FALSE, unlinked |-> FALSE]
    ELSE LET unlocked == IF Locked(e) /\ e.mine
                           THEN [e EXCEPT !.dir = Absent, !.mine = FALSE] ELSE e
         IN  IF Locked(unlocked)
               THEN IF ok
                      THEN [entry |-> [unlocked EXCEPT !.file = File(now)],
                            success |-> TRUE, unlinked |-> TRUE]
                      ELSE [entry |-> unlocked, success |-> FALSE, unlinked |-> FALSE]
               ELSE [entry |-> unlocked, success |-> TRUE, unlinked |-> FALSE]

\* acquireLock(Target, prefix) by a context that does not hold that lock:
\* ensureLockFileExists, the stale check (when check() says locked and the
\* artifact is older than defaultStaleTime: cleanupStaleLockFile), then
\* lockfile.lock, which takes a free lock or one whose directory is stale and
\* otherwise gives up with ELOCKED.
AcquireLockOf(prefix, who) ==
    /\ sweep.pc = "idle"
    /\ holders[prefix].who \in {None, "dead"}
    /\ LET n == LockFileOf[prefix]
           ensured == IF tmpDir[n].file.exists THEN tmpDir[n]
                      ELSE [tmpDir[n] EXCEPT !.file = File(now)]
           checked == IF /\ Locked(ensured) /\ who = "here"
                         /\ (now - ensured.file.mtime) > StaleTime
                        THEN CleanupStaleLockFile(ensured, TRUE).entry ELSE ensured
           free == ~checked.dir.exists \/ IsLockStale(checked.dir.mtime, LockOptionsStale)
       IN  IF free
             THEN /\ tmpDir' = [tmpDir EXCEPT ![n] = [checked EXCEPT !.dir = File(now),
                                                                     !.mine = (who = "here")]]
                  /\ holders' = [holders EXCEPT ![prefix] = [who |-> who, refused |-> FALSE]]
             ELSE /\ tmpDir' = [tmpDir EXCEPT ![n] = checked]
                  /\ holders' = [holders EXCEPT ![prefix].refused = TRUE]
    /\ UNCHANGED <<now, sweep>>
    /\ DirFrame

\* The release function: unlock(file) of the lock this process has
\* registered; the other window releases its own lock.
ReleaseOf(prefix) ==
    /\ sweep.pc = "idle"
    /\ holders[prefix].who \in {"here", "there"}
    /\ LET n == LockFileOf[prefix]
           e == tmpDir[n]
       IN  tmpDir' = [tmpDir EXCEPT ![n] =
                        IF holders[prefix].who = "there" \/ e.mine
                          THEN [e EXCEPT !.dir = Absent, !.mine = FALSE] ELSE e]
    /\ holders' = [holders EXCEPT ![prefix] = NoHolder]
    /\ UNCHANGED <<now, sweep>>
    /\ DirFrame

\* The other window dies with its lock.
CrashOf(prefix) ==
    /\ sweep.pc = "idle"
    /\ holders[prefix].who = "there"
    /\ holders' = [holders EXCEPT ![prefix].who = "dead"]
    /\ UNCHANGED <<now, tmpDir, sweep>>
    /\ DirFrame

\* proper-lockfile's update timer of a living holder is due
UpdateDueOf(prefix) ==
    LET e == tmpDir[LockFileOf[prefix]]
    IN  /\ holders[prefix].who \in {"here", "there"}
        /\ e.dir.exists /\ (holders[prefix].who = "here" => e.mine)
        /\ now - e.dir.mtime >= UpdateEvery

UpdateLockOf(prefix) ==
    /\ sweep.pc = "idle"
    /\ UpdateDueOf(prefix)
    /\ tmpDir' = [tmpDir EXCEPT ![LockFileOf[prefix]].dir = File(now)]
    /\ UNCHANGED <<now, holders, sweep>>
    /\ DirFrame

\* The prefixes in the order the loops take them
PrefixSeq == <<Prefix("documentFile"), Prefix("indexFile"), DefaultPrefix>>

\* An entry of tmpDir: the artifact <name> ("file") or the lock directory
\* <name>.lock ("dir")
ArtifactOf(prefix) == <<LockFileOf[prefix], "file">>
LockDirOf(prefix) == <<LockFileOf[prefix], "dir">>

\* fs.promises.readdir(tmpDir), in a fixed order
AllEntries ==
    <<ArtifactOf(PrefixSeq[1]), LockDirOf(PrefixSeq[1]),
      ArtifactOf(PrefixSeq[2]), LockDirOf(PrefixSeq[2]),
      ArtifactOf(PrefixSeq[3]), LockDirOf(PrefixSeq[3])>>

EntryOf(entry) == IF entry[2] = "file" THEN tmpDir[entry[1]].file ELSE tmpDir[entry[1]].dir

InTmpDir(entry) == EntryOf(entry).exists

\* prefixes = [this.defaultPrefix] when the caller passes none
PrefixesOr(prefixes) == IF prefixes = {} THEN {DefaultPrefix} ELSE prefixes

\* files.filter: the name ends with .lock (the artifacts and the lock
\* directories do) and starts with one of the prefixes
IsLockFile(entry, prefixes) ==
    InTmpDir(entry) /\ \E prefix \in prefixes : StartsWith(entry[1], Words(prefix))

\* cleanupStaleLocks up to its loop: readdir, Date.now(), the filter
CleanupStaleLocks(maxAgeMs, prefixes) ==
    /\ sweep.pc = "idle"
    /\ LET Matches(entry) == IsLockFile(entry, PrefixesOr(prefixes))
           lockFiles == SelectSeq(AllEntries, Matches)
       IN  sweep' = [NoSweep EXCEPT !.op = "cleanupStaleLocks",
                                    !.pc = IF lockFiles = <<>> THEN "done" ELSE "files",
                                    !.now = now, !.maxAgeMs = maxAgeMs,
                                    !.prefixes = PrefixesOr(prefixes),
                                    !.todo = lockFiles, !.total = Len(lockFiles)]
    /\ UNCHANGED <<now, tmpDir, holders>>
    /\ DirFrame

\* A loop that an artifact's failure ends: the call returns (or throws) at the
\* first cleanupStaleLockFile that fails, the entries after it untouched.
SweptUntilFailure(success, counted, old, gone) ==
    IF counted /\ ~success
      THEN [sweep EXCEPT !.todo = <<>>, !.pc = "done", !.failed = @ + 1,
                         !.old = @ \cup old]
      ELSE [sweep EXCEPT !.todo = Tail(@),
                         !.pc = IF Tail(sweep.todo) = <<>> THEN "done" ELSE "files",
                         !.removed = IF counted THEN @ + 1 ELSE @,
                         !.old = @ \cup old, !.gone = @ \cup gone]

\* The cleanup call after one more turn of its loop: `counted` when
\* cleanupStaleLockFile was called (or, in cleanupFileLocks, check() threw)
Swept(success, counted, old, gone) ==
    [sweep EXCEPT !.todo = Tail(@),
                  !.pc = IF Tail(sweep.todo) = <<>> THEN "done" ELSE "files",
                  !.removed = IF counted /\ success THEN @ + 1 ELSE @,
                  !.failed = IF counted /\ ~success THEN @ + 1 ELSE @,
                  !.old = @ \cup old, !.gone = @ \cup gone]

\* One turn of cleanupStaleLocks' loop: stat, and cleanupStaleLockFile when
\* the entry is older than maxAgeMs. For a lock directory <name>.lock,
\* cleanupStaleLockFile finds no <name>.lock.lock, has nothing to create and
\* returns true.
CleanupStaleLocksEntry(ok) ==
    /\ sweep.op = "cleanupStaleLocks" /\ sweep.pc = "files"
    /\ LET entry == Head(sweep.todo)
           n == entry[1]
           age == sweep.now - EntryOf(entry).mtime
           cleanup == CleanupStaleLockFile(tmpDir[n], ok)
       IN  IF ~InTmpDir(entry) \/ ~(age > sweep.maxAgeMs)
             THEN sweep' = Swept(FALSE, FALSE, {}, {}) /\ UNCHANGED tmpDir
           ELSE IF entry[2] = "dir"
             THEN sweep' = Swept(TRUE, TRUE, {entry}, {}) /\ UNCHANGED tmpDir
           ELSE /\ tmpDir' = [tmpDir EXCEPT ![n] = cleanup.entry]
                /\ sweep' = Swept(cleanup.success, TRUE, {entry},
                                  IF cleanup.unlinked THEN {entry} ELSE {})
    /\ UNCHANGED <<now, holders>>
    /\ DirFrame

\* cleanupFileLocks(Target, prefixes) up to its loop
CleanupFileLocks(prefixes) ==
    /\ sweep.pc = "idle"
    /\ LET Named(entry) == \E prefix \in PrefixesOr(prefixes) : entry = ArtifactOf(prefix)
       IN  sweep' = [NoSweep EXCEPT !.op = "cleanupFileLocks", !.pc = "files",
                                    !.now = now, !.prefixes = PrefixesOr(prefixes),
                                    !.todo = SelectSeq(AllEntries, Named)]
    /\ UNCHANGED <<now, tmpDir, holders>>
    /\ DirFrame

\* One turn of cleanupFileLocks' loop: check() (which throws when the
\* artifact is missing: failed++), checkStaleLock against defaultStaleTime,
\* cleanupStaleLockFile
CleanupFileLocksEntry(ok) ==
    /\ sweep.op = "cleanupFileLocks" /\ sweep.pc = "files"
    /\ LET entry == Head(sweep.todo)
           n == entry[1]
           e == tmpDir[n]
           cleanup == CleanupStaleLockFile(e, ok)
       IN  IF ~e.file.exists
             THEN sweep' = Swept(FALSE, TRUE, {}, {}) /\ UNCHANGED tmpDir
           ELSE IF ~Locked(e) \/ ~((now - e.file.mtime) > StaleTime)
             THEN sweep' = Swept(FALSE, FALSE, {}, {}) /\ UNCHANGED tmpDir
           ELSE /\ tmpDir' = [tmpDir EXCEPT ![n] = cleanup.entry]
                /\ sweep' = Swept(cleanup.success, TRUE, {entry},
                                  IF cleanup.unlinked THEN {entry} ELSE {})
    /\ UNCHANGED <<now, holders>>
    /\ DirFrame

\* The caller has taken what the cleanup call returned.
CleanupReturn ==
    /\ sweep.pc = "done"
    /\ sweep' = NoSweep
    /\ UNCHANGED <<now, tmpDir, holders>>
    /\ DirFrame

\* Time passes between the calls; a due update timer fires first.
DirTick ==
    /\ now < DirMaxTime
    /\ sweep.pc = "idle"
    /\ \A prefix \in TargetPrefixes : ~UpdateDueOf(prefix)
    /\ now' = now + 1
    /\ UNCHANGED <<lockVars, ixVars>>

DirNext ==
    \/ \E prefix \in TargetPrefixes, who \in {"here", "there"} : AcquireLockOf(prefix, who)
    \/ \E prefix \in TargetPrefixes : ReleaseOf(prefix)
    \/ \E prefix \in TargetPrefixes : CrashOf(prefix)
    \/ \E prefix \in TargetPrefixes : UpdateLockOf(prefix)
    \/ \E maxAgeMs \in 0 .. DirMaxAgeMs, prefixes \in SUBSET TargetPrefixes :
          CleanupStaleLocks(maxAgeMs, prefixes)
    \/ \E ok \in BOOLEAN : CleanupStaleLocksEntry(ok)
    \/ \E prefixes \in SUBSET TargetPrefixes : CleanupFileLocks(prefixes)
    \/ \E ok \in BOOLEAN : CleanupFileLocksEntry(ok)
    \/ CleanupReturn
    \/ DirTick

InitDir ==
    /\ now = 0
    /\ LockInit
    /\ procOf = [c \in Ctx |-> "p1"]
    /\ IndexInit
    /\ fileKind = [f \in Files |-> "text"]
    /\ ImInit /\ workspaceFolders = {}

SpecLockDir == InitDir /\ [][DirNext]_vars

(***************************************************************************)
(* documentFile(F) with the steps of addDocumentation: the validation      *)
(* before, up to MAX_ATTEMPTS oracle calls, each followed by a validation  *)
(* of the generated content written to the file for the time of the check, *)
(* and documentFile's own write. indexPath has returned a record of F       *)
(* without lastDocumentedTime.                                              *)
(***************************************************************************)
AddDocFrame ==
    UNCHANGED <<now, lockVars, fileKind, mtimeMs, store, ixLock, stack, ret, ixCalls, cur,
                prev, workspaceFolders, markers, partitions, indexFiles, api, dirVars>>

\* The user saves the file, with or without blanks around its content.
UserSaves(tidy) ==
    /\ addDoc.pc = "idle"
    /\ text # Original(tidy)
    /\ text' = Original(tidy)
    /\ addDoc' = NoAddDoc
    /\ AddDocFrame

\* documentFile ends with this result
DocFileEnds(success, message) ==
    [addDoc EXCEPT !.pc = "done", !.res = Value(DocResult("F", success, message))]

\* documentFile up to addDocumentation: the lock, the extension check,
\* readFile
DocFileCall(canValidate, supported, outcome) ==
    /\ addDoc.pc = "idle"
    /\ addDoc' =
          IF outcome = "ELOCKED"
            THEN [DocFileEnds(FALSE, "being documented by another process")
                    EXCEPT !.content = text]
          ELSE IF outcome = "EIO"
            THEN [NoAddDoc EXCEPT !.pc = "done", !.content = text, !.res = Error(outcome)]
          ELSE IF ~supported
            THEN [DocFileEnds(FALSE, "Unsupported file type") EXCEPT !.content = text]
          ELSE [NoAddDoc EXCEPT !.pc = "before", !.canValidate = canValidate,
                                !.content = text, !.documentedContent = text]
    /\ UNCHANGED text
    /\ AddDocFrame

\* Step 1: validateFileSyntax before documentation, when it is possible
AddDocBefore(isValid) ==
    /\ addDoc.pc = "before"
    /\ ~addDoc.canValidate => isValid
    /\ addDoc' = IF addDoc.canValidate /\ ~isValid
                   THEN DocFileEnds(FALSE, "File has syntax errors")
                   ELSE [addDoc EXCEPT !.pc = "attempt"]
    /\ UNCHANGED text
    /\ AddDocFrame

\* while (attempts < MAX_ATTEMPTS && !success): where the loop goes after an
\* attempt without success
NextAttempt(a) ==
    [a EXCEPT !.pc = IF a.attempts < MAX_ATTEMPTS THEN "attempt" ELSE "return"]

\* One oracle call: GPTClient.answer, JSON.parse, parsed.content. An error is
\* caught and logged.
AddDocAttempt(answered) ==
    /\ addDoc.pc = "attempt"
    /\ LET a == [addDoc EXCEPT !.attempts = @ + 1]
       IN  addDoc' =
             IF ~answered THEN NextAttempt([a EXCEPT !.produced = FALSE])
             ELSE IF ~a.canValidate
               THEN [a EXCEPT !.documentedContent = Generated, !.produced = TRUE,
                              !.success = TRUE, !.pc = "return"]
             ELSE [a EXCEPT !.documentedContent = Generated, !.produced = TRUE,
                            !.verdict = "none", !.pc = "tempWrite"]
    /\ UNCHANGED text
    /\ AddDocFrame

\* readFileSync(filePath), writeFileSync(filePath, documentedContent); an
\* error is caught: "Continue as if validation was successful"
AddDocTempWrite(ok) ==
    /\ addDoc.pc = "tempWrite"
    /\ IF ok
         THEN /\ text' = addDoc.documentedContent
              /\ addDoc' = [addDoc EXCEPT !.originalContent = text, !.pc = "validate"]
         ELSE /\ UNCHANGED text
              /\ addDoc' = [addDoc EXCEPT !.success = TRUE, !.pc = "return"]
    /\ AddDocFrame

\* Step 3: validateFileSyntax after documentation
AddDocValidate(isValid) ==
    /\ addDoc.pc = "validate"
    /\ addDoc' = [addDoc EXCEPT !.verdict = IF isValid THEN "valid" ELSE "invalid",
                                !.pc = "restore"]
    /\ UNCHANGED text
    /\ AddDocFrame

\* Step 4: writeFileSync(filePath, originalContent), then the verdict counts;
\* an error of the write is caught as above
AddDocRestore(ok) ==
    /\ addDoc.pc = "restore"
    /\ IF ok
         THEN /\ text' = addDoc.originalContent
              /\ addDoc' = IF addDoc.verdict = "valid"
                             THEN [addDoc EXCEPT !.success = TRUE, !.pc = "return"]
                             ELSE NextAttempt(addDoc)
         ELSE /\ UNCHANGED text
              /\ addDoc' = [addDoc EXCEPT !.success = TRUE, !.pc = "return"]
    /\ AddDocFrame

\* syntaxValid: success || !canValidate
SyntaxValid(a) == a.success \/ ~a.canValidate

\* addDocumentation has returned: if (docResult.syntaxValid) writeFile(filePath,
\* docResult.content.trim() + '\n'); an error of the write is caught by the
\* inner catch
DocFileWrite(ok) ==
    /\ addDoc.pc = "return"
    /\ IF SyntaxValid(addDoc)
         THEN IF ok
                THEN /\ text' = Trim(addDoc.documentedContent)
                     /\ addDoc' = DocFileEnds(TRUE, "successfully documented")
                ELSE /\ UNCHANGED text
                     /\ addDoc' = DocFileEnds(FALSE, "error")
         ELSE /\ UNCHANGED text
              /\ addDoc' = DocFileEnds(FALSE, "invalid")
    /\ AddDocFrame

\* The caller has taken documentFile's result.
DocFileReturn ==
    /\ addDoc.pc = "done"
    /\ addDoc' = NoAddDoc
    /\ UNCHANGED text
    /\ AddDocFrame

AddDocNext ==
    \/ \E tidy \in BOOLEAN : UserSaves(tidy)
    \/ \E canValidate \in BOOLEAN, supported \in BOOLEAN, outcome \in AcquireOutcomes :
          DocFileCall(canValidate, supported, outcome)
    \/ \E isValid \in BOOLEAN : AddDocBefore(isValid)
    \/ \E answered \in BOOLEAN : AddDocAttempt(answered)
    \/ \E ok \in BOOLEAN : AddDocTempWrite(ok)
    \/ \E isValid \in BOOLEAN : AddDocValidate(isValid)
    \/ \E ok \in BOOLEAN : AddDocRestore(ok)
    \/ \E ok \in BOOLEAN : DocFileWrite(ok)
    \/ DocFileReturn

SpecAddDoc == InitDir /\ [][AddDocNext]_vars

(***************************************************************************)
(* Properties of the LockManager (checked under SpecLock)                  *)
(***************************************************************************)
\* The context owns a working lock: its release closure refers to a lock object
\* that is still registered.
HoldsLock(c) == lockObj[c] = "active" \/ locks[Proc(c)] = c

\* C1: while no process has crashed and no holder has held the lock for longer
\* than the stale threshold, at most one context holds the lock for the
\* (filePath, prefix) pair: a second acquireLock returns a release function
\* only after the first holder's release function was invoked.
C1_MutualExclusion ==
    ((\A p \in Procs : alive[p]) /\ (\A c \in Holders : now - acquiredAt[c] <= StaleTime))
        => Cardinality(Holders) <= 1

\* C1, two processes only: holders in different processes exclude each other
\* (the registry of one process cannot unlock the other's lock).
C1_AcrossProcesses ==
    ((\A p \in Procs : alive[p]) /\ procOf["c1"] # procOf["c2"])
        => Cardinality(Holders) <= 1

\* C2: a call of acquireLock that starts when the lock of a crashed holder is
\* older than staleTime, and that no other living context competes with,
\* does not fail (short of an I/O error creating the artifact): it reclaims
\* the lock without anybody releasing it.
Unrivalled(c) == \A d \in Ctx \ {c} : ~Live(d) \/ calls[d] = 0

C2_StaleLockReclaimed ==
    \A c \in Ctx :
        (hist.staleStart[c] /\ Unrivalled(c) /\ pc[c] = "failed") => err[c] = "EIO"

C2_Witness ==
    \E c \in Ctx : hist.staleStart[c] /\ Unrivalled(c) /\ pc[c] = "held" /\ Live(c)

\* options.retries as the caller configured it, 5 when the option is absent
ConfiguredRetries(opt) == IF opt = Unset THEN DefaultRetries ELSE opt

\* C3: acquireLock gives up after at most the configured number of retries
\* (options.retries, default 5).
C3_AtMostConfiguredRetries ==
    \A c \in Ctx : attempts[c] <= ConfiguredRetries(optRetries[c])

\* C3, what the code guarantees: the retries never exceed
\* options.retries || 5, so the call cannot wait without bound.
C3_AtMostEffectiveRetries ==
    \A c \in Ctx : attempts[c] <= EffectiveRetries(optRetries[c])

C5_StepOutcome(c) ==
    /\ (pc[c] \in {"lstat", "mkdir0"} /\ pc'[c] = "failed")
          => (err'[c] = "ELOCKED" /\ lockDir.exists
              /\ attempts[c] = EffectiveRetries(optRetries[c]))
    /\ (calls'[c] = calls[c] + 1 /\ ~artifact'.exists)
          => (pc'[c] = "failed" /\ err'[c] \notin {"ELOCKED", "none"})

C25_OnlyOldLocksForceReleased ==
    [][\A c, d \in Ctx :
         (/\ c # d
          /\ pc[c] = "cl_unlock" /\ pc'[c] # "cl_unlock"
          /\ pc[d] = "held" /\ Live(d)
          /\ HoldsLock(d) /\ ~HoldsLock(d)')
           => now - acquiredAt[d] > StaleTime]_vars

(***************************************************************************)
(* Properties of the indexers and documenters                              *)
(***************************************************************************)
LockingFns == {"indexFile", "indexDirectory", "documentFile", "documentDirectory"}
Indexers == {"indexFile", "indexDirectory"}

\* The top-level call of the context is over.
Done(c) == ~Busy(c) /\ cur[c].res.kind # "none"

\* A pending call of c took the lock k and has not reached the end of its
\* finally block.
HeldByPendingCall(c, k) ==
    \E i \in 1 .. Len(stack[c]) :
        /\ stack[c][i].fn \in LockingFns
        /\ KeyOf(stack[c][i]) = k
        /\ stack[c][i].held

C6_ContentionReturnsNull ==
    \A c \in IxCtx :
        ret[c].fn \in Indexers =>
            /\ ret[c].lockRes = "ELOCKED" =>
                  (ret[c].res = Value(Null) /\ ~ret[c].asked /\ ~ret[c].wrote)
            /\ ret[c].lockRes = "EIO" => ret[c].res = Error("EIO")

\* indexDirectory gave up on its lock after its children were indexed.
C6_Witness ==
    \E c \in IxCtx :
        /\ ret[c].fn = "indexDirectory" /\ ret[c].lockRes = "ELOCKED"
        /\ ret[c].res = Value(Null)
        /\ cur[c].wrote # {}

\* C7: when an oracle call made while indexing path P fails, the indexPath
\* call has not written the record of P before the failure and the record
\* of P stays as it is from the failure on.
C7_NoRecordAfterOracleFailure ==
    /\ [](\A c \in IxCtx : cur[c].oracleFailed \cap cur[c].wrote = {})
    /\ [][\A c \in IxCtx : \A p \in cur'[c].oracleFailed :
             Busy(c) => store'[p] = store[p]]_vars

\* indexPath(F) failed in the oracle; the record F had before is still there.
C7_Witness ==
    \E c \in IxCtx :
        /\ Done(c) /\ cur[c].path = "F" /\ "F" \in cur[c].oracleFailed
        /\ IsError(cur[c].res)
        /\ store["F"] # Null

\* The names listed in a record's members
MemberNames(info) == {info.members[i].name : i \in 1 .. Len(info.members)}

Reindexed(c, p) ==
    /\ Done(c)
    /\ cur[c].op = "indexPath" /\ cur[c].path = p
    /\ prev[c].op = "indexPath" /\ prev[c].path = p
    /\ prev[c].record

\* C9: of two successive indexPath(P) calls on a text file P that nobody
\* modified in between, the first of which asked the oracle and returned its
\* record, the second does not ask the oracle, however much later it runs.
C9_SecondCallIsCached ==
    \A c \in IxCtx, p \in Files :
        (Reindexed(c, p) /\ fileKind[p] = "text" /\ prev[c].asked /\ prev[c].wrote
           /\ prev[c].touched = {})
            => p \notin cur[c].asked

\* C10: D, whose file F has a record, was indexed, then F was modified, then
\* D was indexed again and indexPath(D) returned a record: the oracle was
\* asked about D and a new record of D was written.
C10_DirectoryRegenerated ==
    \A c \in IxCtx :
        (Reindexed(c, "D") /\ store["F"] # Null /\ "F" \in prev[c].touched
           /\ IsRecord(cur[c].res))
            => ("D" \in cur[c].asked /\ "D" \in cur[c].wrote)

\* The step ends the top-level call of c.
Returns(c) == Busy(c) /\ stack'[c] = <<>>

\* C11: when a top-level indexPath(P) on a file P returns a record, whatever
\* the content class of P, then at that moment getFileInfo(P) returns that
\* record and isFileInfoValid(P) is true. (A record that is valid with
\* maxAgeMs = 0 has the timestamp of this reading of the clock, which is no
\* earlier than the start of the call.)
C11_RecordPersisted ==
    [][\A c \in IxCtx :
         (Returns(c) /\ cur'[c].op = "indexPath" /\ cur'[c].path \in Files
            /\ IsRecord(cur'[c].res))
          => /\ store'[cur'[c].path] = cur'[c].res.val
             /\ (now' - store'[cur'[c].path].timestamp) <= MaxAgeMs]_vars

\* C12: an ignored path is never handed to an indexer, no oracle call is made
\* for it and its record is never written; indexPath of an ignored path
\* returns null, whether or not the path has a (valid) record; no members
\* list, collected or stored or returned, names an ignored path.
C12_IgnoredPathUntouched ==
    /\ [](\A c \in IxCtx :
            /\ \A p \in cur[c].asked \cup cur[c].wrote \cup cur[c].writeFailed :
                  ~IsPathIgnored(p)
            /\ (ret[c].fn = "indexPath" /\ IsPathIgnored(ret[c].path))
                  => ret[c].res = Value(Null)
            /\ \A i \in 1 .. Len(stack[c]) :
                  /\ stack[c][i].fn \in Indexers => ~IsPathIgnored(stack[c][i].path)
                  /\ stack[c][i].fn = "indexDirectory" =>
                        \A j \in 1 .. Len(stack[c][i].members) :
                            ~IsPathIgnored(stack[c][i].members[j].name)
            /\ IsRecord(ret[c].res) =>
                  \A n \in MemberNames(ret[c].res.val) : ~IsPathIgnored(n))
    /\ [](\A p \in Paths : store[p] # Null =>
                              \A n \in MemberNames(store[p]) : ~IsPathIgnored(n))
    /\ [][\A p \in Paths : IsPathIgnored(p) => store'[p] = store[p]]_vars

\* indexPath(N) returned null although N has a record that is valid now.
C12_Witness ==
    \E c \in IxCtx :
        /\ Done(c) /\ cur[c].op = "indexPath" /\ cur[c].path = "N"
        /\ cur[c].res = Value(Null)
        /\ IsFileInfoValid("N")

ShortCircuited == {"binary", "empty", "large"}

HasLastDocumentedTime(info) == info # Null /\ "lastDocumentedTime" \in DOMAIN info

\* documentFile / documentDirectory has set lastDocumentedTime and called
\* updateFileInfo, and the write succeeded.
Recorded(c) ==
    Busy(c) /\ Top(c).fn \in {"documentFile", "documentDirectory"} /\ Top(c).wrote

\* C16: once documentFile or documentDirectory has recorded
\* lastDocumentedTime for P (the Date.now() of that moment), the record of P
\* carries it, and a later write of P's record by anybody else keeps it.
C16_LastDocumentedTimeKept ==
    /\ [](\A c \in IxCtx :
            Recorded(c) =>
               /\ HasLastDocumentedTime(GetFileInfo(Top(c).path))
               /\ GetFileInfo(Top(c).path).lastDocumentedTime = now)
    /\ [][\A p \in Paths :
            HasLastDocumentedTime(store[p]) =>
               /\ HasLastDocumentedTime(store'[p])
               /\ \/ store'[p].lastDocumentedTime = store[p].lastDocumentedTime
                  \/ \E c \in IxCtx : ~Recorded(c) /\ Recorded(c)']_vars

\* C17: a top-level indexPath(P) in which the write of P's record failed ends
\* with an error; it does not return a record.
C17_WriteFailureRaised ==
    \A c \in IxCtx :
        (Done(c) /\ cur[c].op = "indexPath" /\ cur[c].path \in cur[c].writeFailed)
            => IsError(cur[c].res)

\* C26: of two contexts whose indexPath calls on the same text file overlap,
\* once one has written the file's record the other does not ask the oracle
\* about the file: it finds the record when it re-checks the cache under the
\* lock.
C26_OracleRunsOnce ==
    [][\A c, d \in RaceCtx :
         (/\ c # d
          /\ cur[c].op = "indexPath" /\ cur[d].op = "indexPath" /\ cur[c].path = cur[d].path
          /\ cur[c].path \in cur[c].wrote
          /\ cur[d].path \notin cur[d].asked)
           => cur'[d].path \notin cur'[d].asked]_vars

\* The indexing lock of a path: documentor_file or documentor_index_dir
IndexLockOf(p) == <<IF p \in Dirs THEN Prefix("indexDirectory") ELSE Prefix("indexFile"), p>>

\* C27: whenever the record of a path P changes, a context holds the
\* indexing lock of P: every updateFileInfo(P, ...) is made under that lock.
C27_WritesUnderIndexLock ==
    [][\A p \in Paths :
         store'[p] # store[p] => \E c \in IxCtx : ixLock[IndexLockOf(p)] = c]_vars

\* C24: a record written during a top-level indexPath call stays in the
\* store as it was written, whatever happens later in that call: the oracle
\* failing for a sibling or for the directory, a lock that cannot be taken.
C24_PartialProgressKept ==
    /\ [][\A c \in IxCtx : \A p \in cur[c].wrote : store'[p] = store[p]]_vars
    /\ [](\A c \in IxCtx : \A p \in cur[c].wrote :
             store[p] # Null /\ store[p].filePath = p)

\* indexPath(D) failed: F was indexed and written, then the oracle failed
\* for G and for D itself; the record of F is still there.
C24_Witness ==
    \E c \in IxCtx :
        /\ Done(c) /\ cur[c].op = "indexPath" /\ cur[c].path = "D"
        /\ IsError(cur[c].res)
        /\ cur[c].wrote = {"F"} /\ cur[c].oracleFailed = {"G", "D"}
        /\ store["F"] # Null /\ store["F"].timestamp <= now

\* C29: D was indexed (the oracle was asked, the record was written), nobody
\* modified D or a child of it afterwards, and D was indexed again with a
\* record as the result: the second call took no directory lock and did not
\* ask the oracle about D.
C29_UnchangedDirectoryIsCached ==
    \A c \in IxCtx :
        (Reindexed(c, "D") /\ prev[c].asked /\ prev[c].wrote
           /\ prev[c].touched = {} /\ IsRecord(cur[c].res))
            => ("D" \notin cur[c].asked /\ ret[c].lockRes # "held")

\* The indexDirectory frame has got past its loop: it holds its lock, has
\* asked the oracle or is about to, or has written its record.
PastLoop(f) ==
    f.held \/ f.asked \/ f.wrote \/ f.pc \in {"docstring", "description"}

\* C30: an indexDirectory(D) call that holds D's index lock, asks the oracle
\* about D or has written D's record has been through all entries of D, and
\* no indexPath call of a child is pending; while a child is being indexed
\* the context does not hold D's index lock.
C30_ChildrenBeforeDirectory ==
    \A c \in IxCtx :
        /\ \A i \in 1 .. Len(stack[c]) :
              LET f == stack[c][i]
              IN  f.fn = "indexDirectory" =>
                    /\ PastLoop(f) => (i = Len(stack[c]) /\ f.i = Len(Entries(f.path)))
                    /\ f.pc \in {"loop", "child"} => ixLock[KeyOf(f)] # c
        /\ \A d \in Dirs :
              ixLock[<<Prefix("indexDirectory"), d>>] = c
                => (Busy(c) /\ Top(c).fn = "indexDirectory" /\ Top(c).path = d)

\* indexDirectory(D) holds D's lock and is about to ask the oracle; the record
\* of the child F was written earlier in the same call.
C30_Witness ==
    \E c \in IxCtx :
        /\ At(c, "indexDirectory", "docstring") /\ Top(c).path = "D"
        /\ ixLock[<<Prefix("indexDirectory"), "D">>] = c
        /\ "F" \in cur[c].wrote

\* The names of the members, in their order
NamesInOrder(members) == [i \in 1 .. Len(members) |-> members[i].name]

NotIgnored(p) == ~IsPathIgnored(p)

\* C31: the members of D's record are the entries of D that are not ignored,
\* one member each, in the order of the listing, each with the type of the
\* entry.
C31_MembersListEveryChild ==
    store["D"] # Null =>
        /\ NamesInOrder(store["D"].members) = SelectSeq(Entries("D"), NotIgnored)
        /\ \A i \in 1 .. Len(store["D"].members) :
              store["D"].members[i].type =
                  IF store["D"].members[i].name \in Dirs THEN "directory" ELSE "file"

\* documentPath(F) was called after a documentPath(F) that wrote the
\* documented content and F's record, nobody modified F in between, and the
\* call has taken its lock and is over.
Redocumented(c) ==
    /\ Done(c)
    /\ cur[c].op = "documentPath" /\ cur[c].path = "F"
    /\ prev[c].op = "documentPath" /\ prev[c].path = "F"
    /\ prev[c].documented /\ prev[c].wrote /\ prev[c].touched = {}
    /\ ret[c].lockRes = "held"

\* C33: a documentFile(F) call on the supported file F, which documentFile
\* documented with success last time and nobody has modified since, does not
\* ask the oracle for F's documentation and does not write F again.
C33_UnmodifiedFileSkipped ==
    \A c \in IxCtx :
        (Redocumented(c) /\ SupportedExtension("F"))
            => cur[c].res # Documented("F")

(***************************************************************************)
(* Properties of the IndexManager (checked under SpecIm)                   *)
(***************************************************************************)
\* The step is a call of the IndexManager method op.
Called(op) == api = NoApi /\ api'.op = op

\* C14: isFileInfoValid(P, maxAgeMs) returns true exactly when the index file
\* of P holds a readable record and Date.now() - record.timestamp <= maxAgeMs;
\* without a record it returns false.
C14_ValidIffRecentRecord ==
    api.op = "isFileInfoValid" =>
        LET loc == GetIndexFilePaths(api.path).indexFilePath
            hasRecord == loc \in DOMAIN indexFiles /\ indexFiles[loc] # Garbage
        IN  /\ ~api.raised
            /\ api.val = Boolean(/\ hasRecord
                                 /\ now - indexFiles[loc].timestamp <= api.arg)

\* isFileInfoValid(P, 0) returned false for a record that isFileInfoValid(P, 1)
\* accepts.
C14_Witness ==
    /\ api.op = "isFileInfoValid" /\ api.arg = 0 /\ api.val = Boolean(FALSE)
    /\ IsFileInfoValidWithin(api.path, 1)

\* What getFileInfo(q) returns after the step
FileInfoOnDiskAfter(q) ==
    LET loc == GetIndexFilePaths(q).indexFilePath
    IN  IF loc \in DOMAIN indexFiles' /\ indexFiles'[loc] # Garbage
          THEN indexFiles'[loc] ELSE Null

\* The index files that hold a record of path q
RecordsOf(q) ==
    {loc \in DOMAIN indexFiles : indexFiles[loc] # Garbage /\ indexFiles[loc].filePath = q}

C18_GetFileInfoNeverRaises ==
    api.op = "getFileInfo" =>
        LET loc == GetIndexFilePaths(api.path).indexFilePath
        IN  /\ ~api.raised
            /\ api.val = IF loc \in DOMAIN indexFiles /\ indexFiles[loc] # Garbage
                           THEN indexFiles[loc] ELSE Null

\* getFileInfo returned null for a damaged index file.
C18_Witness ==
    /\ api.op = "getFileInfo" /\ api.val = Null /\ ~api.raised
    /\ GetIndexFilePaths(api.path).indexFilePath \in DOMAIN indexFiles

\* The file f of a project
FileOf(root) == Append(root, "f")

\* C19: the files of the two projects have different project ids and index
\* files in different project directories, and a clearProjectIndex(R) leaves
\* what getFileInfo returns for every path of the other project (its root
\* directory, its file) as it was.
C19_ProjectsAreDisjoint ==
    /\ [](/\ GetProjectId(FileOf(AppRoot)) # GetProjectId(FileOf(LibRoot))
          /\ GetIndexFilePaths(FileOf(AppRoot)).projectIndexDir
               # GetIndexFilePaths(FileOf(LibRoot)).projectIndexDir)
    /\ [][\A root \in ProjectRoots :
            (Called("clearProjectIndex") /\ api'.path = root) =>
                \A other \in ProjectRoots \ {root} : \A q \in PathsOf(other) :
                    FileInfoOnDiskAfter(q) = FileInfoOnDisk(q)]_vars

\* C20: after a clearProjectIndex(R) in which no file-system call failed,
\* getFileInfo is absent for R and for every path under R; a
\* clearProjectIndex(R) that finds no project directory changes nothing; no
\* clearProjectIndex throws.
C20_ClearRemovesProjectRecords ==
    /\ [](api.op = "clearProjectIndex" =>
            /\ ~api.raised
            /\ api.saved => \A q \in PathsOf(api.path) : FileInfoOnDisk(q) = Null)
    /\ [][(Called("clearProjectIndex") /\ GetProjectId(api'.path) \notin partitions)
            => UNCHANGED <<partitions, indexFiles>>]_vars

\* C21: getProjectId gives every path of a project (the project's root
\* directory, the file beneath it) the id it gives the project's root, the
\* same at every call: the id is a function of the path, the workspace
\* folders and the markers alone.
C21_OneIdPerProject ==
    api.op = "getProjectId" =>
        /\ api.val = [projectId |-> GetProjectId(api.path)]
        /\ \A root \in ProjectRoots :
              api.path \in PathsOf(root) =>
                  api.val = [projectId |-> GetProjectId(FileOf(root))]

\* C35: updateFileInfo(P, ...) leaves what getFileInfo(Q) returns for every
\* other path Q as it was, also for paths that differ by a separator and an
\* underscore, and a record that getFileInfo(Q) returns has the filePath Q.
C35_PathsHaveOwnRecords ==
    /\ [](\A q \in OtherTree :
            FileInfoOnDisk(q) # Null => FileInfoOnDisk(q).filePath = q)
    /\ [][\A q \in OtherTree :
            (Called("updateFileInfo") /\ api'.path # q)
                => FileInfoOnDiskAfter(q) = FileInfoOnDisk(q)]_vars

\* The directories above the path, the root directory included
Ancestors(q) == {SubSeq(q, 1, n) : n \in 0 .. Len(q) - 1}

\* No workspace folder contains the path and no directory above it has a
\* marker.
NoProjectAbove(q) == FoldersOf(q) = {} /\ Ancestors(q) \cap markers = {}

\* The project id of a project whose root is the directory of the path
IdOfParent(q) == Md5(Dirname(q)) \o "-" \o Basename(Dirname(q))

\* C38: for a path that no workspace folder contains and that has no marker
\* above it, getProjectId returns the id of the path's parent directory, and
\* updateFileInfo writes the record to the file named after the path's
\* basename in the partition of that id.
C38_FallsBackToParent ==
    NoProjectAbove(api.path) =>
        /\ api.op = "getProjectId" => api.val = [projectId |-> IdOfParent(api.path)]
        /\ (api.op = "updateFileInfo" /\ api.saved) =>
              <<IdOfParent(api.path), Basename(api.path) \o ".json">> \in DOMAIN indexFiles

\* C36: when the clear-index command has completed for a selected project
\* (or for 'All Projects') and no removal failed, the partition of every
\* selected project is gone: it is not among the directories
\* getIndexedProjects() lists, and getFileInfo returns null for the paths
\* whose index files it held.
C36_ClearCommandRemovesPartition ==
    (api.op = "clearDocumentationIndex" /\ api.saved) =>
        \A id \in api.arg :
            /\ id \notin {p.id : p \in GetIndexedProjects}
            /\ \A q \in ClearTree :
                  GetIndexFilePaths(q).projectIndexDir = id => FileInfoOnDisk(q) = Null

(***************************************************************************)
(* Properties of the lock directory (checked under SpecLockDir)            *)
(***************************************************************************)
\* C22: when cleanupStaleLocks(maxAgeMs, prefixes) has returned, tmpDir holds
\* no artifact that matches one of the prefixes and is older than maxAgeMs
\* (each was unlinked; a fresh empty one may stand in its place), no lock on
\* such an artifact is left, and `removed` is the number of artifacts the
\* call unlinked.
C22_StaleArtifactsRemoved ==
    (sweep.op = "cleanupStaleLocks" /\ sweep.pc = "done") =>
        /\ \A prefix \in sweep.prefixes \cap TargetPrefixes :
              LET e == tmpDir[LockFileOf[prefix]]
              IN  /\ e.file.exists => ~(sweep.now - e.file.mtime > sweep.maxAgeMs)
                  /\ ArtifactOf(prefix) \in sweep.old => ~e.dir.exists
        /\ sweep.removed = Cardinality(sweep.gone)

\* The living holder of (Target, prefix) has its lock: the lock directory is
\* there and, for a holder in this process, registered.
Intact(dir, prefix, who) ==
    /\ dir[LockFileOf[prefix]].dir.exists
    /\ who = "here" => dir[LockFileOf[prefix]].mine

LiveHolders == {"here", "there"}

\* C23: the locks of one target under different prefixes are independent:
\* an acquireLock(Target, prefix) gives up only on a lock that a crashed
\* holder left under that same prefix, never because of what is held under
\* the other prefix; and the lock of a living holder under one prefix is
\* lost only by its own release or by a cleanup call for that prefix, never
\* by an acquire, release or cleanup for the other prefix.
C23_PrefixesIndependent ==
    /\ [](\A prefix \in TargetPrefixes :
            holders[prefix].refused => holders[prefix].who = "dead")
    /\ [][\A prefix \in TargetPrefixes :
            (/\ holders[prefix].who \in LiveHolders
             /\ Intact(tmpDir, prefix, holders[prefix].who)
             /\ ~Intact(tmpDir', prefix, holders[prefix].who))
              => \/ holders'[prefix].who = None
                 \/ sweep.pc = "files" /\ prefix \in sweep.prefixes]_vars

\* Both locks of the target are held; a cleanup for documentor_file alone has
\* force-released that one, and the documentor_doc_file lock is untouched.
C23_Witness ==
    /\ sweep.pc = "done" /\ sweep.prefixes = {Prefix("indexFile")}
    /\ holders[Prefix("indexFile")].who = "here"
    /\ ~Intact(tmpDir, Prefix("indexFile"), "here")
    /\ holders[Prefix("documentFile")].who \in LiveHolders
    /\ Intact(tmpDir, Prefix("documentFile"), holders[Prefix("documentFile")].who)

\* C32: cleanupStaleLocks called without prefixes, as the modules do when
\* they are loaded and as the documentor.cleanupLocks command does, has
\* returned: every artifact of the indexers' and documenters' prefixes that
\* was older than maxAgeMs was handed to cleanupStaleLockFile.
C32_CallersReclaimStaleArtifacts ==
    (sweep.op = "cleanupStaleLocks" /\ sweep.pc = "done"
       /\ sweep.prefixes = {DefaultPrefix}) =>
        \A prefix \in TargetPrefixes :
            LET e == tmpDir[LockFileOf[prefix]]
            IN  (e.file.exists /\ sweep.now - e.file.mtime > sweep.maxAgeMs)
                    => ArtifactOf(prefix) \in sweep.old

\* C37: a failure at one artifact does not end cleanupStaleLocks. Every turn
\* of its loop takes the next entry off the list and leaves the call running
\* (or returns after the last entry); an entry that stat() does not find is
\* skipped without being counted; an artifact that is still old and still
\* locked after its turn (unlock and unlink did not succeed) is counted in
\* `failed`; no counter goes down; and removed + failed <= total throughout,
\* so in the result too.
C37_FailuresCountedLoopGoesOn ==
    /\ [](sweep.op = "cleanupStaleLocks" => sweep.removed + sweep.failed <= sweep.total)
    /\ [][(sweep.op = "cleanupStaleLocks" /\ sweep.pc = "files" /\ sweep' # sweep) =>
            LET entry == Head(sweep.todo)
                after == tmpDir'[entry[1]]
                stillStale == /\ entry[2] = "file"
                              /\ after.file.exists
                              /\ sweep.now - after.file.mtime > sweep.maxAgeMs
                              /\ Locked(after)
            IN  /\ sweep'.op = "cleanupStaleLocks"
                /\ sweep'.todo = Tail(sweep.todo)
                /\ sweep'.pc = IF Tail(sweep.todo) = <<>> THEN "done" ELSE "files"
                /\ sweep'.total = sweep.total
                /\ sweep'.removed >= sweep.removed
                /\ sweep'.failed >= sweep.failed
                /\ stillStale => sweep'.failed = sweep.failed + 1
                /\ ~InTmpDir(entry) =>
                      /\ sweep'.removed = sweep.removed
                      /\ sweep'.failed = sweep.failed]_vars

\* A cleanupStaleLocks has returned with an artifact it failed on, one it
\* handled, and an entry it skipped.
C37_Witness ==
    /\ sweep.op = "cleanupStaleLocks" /\ sweep.pc = "done"
    /\ sweep.failed >= 1
    /\ sweep.removed >= 1
    /\ sweep.removed + sweep.failed < sweep.total

(***************************************************************************)
(* Properties of concurrent calls (checked under SpecConc)                 *)
(***************************************************************************)
DocPrefixes == {Prefix("documentFile"), Prefix("documentDirectory")}
IndexPrefixes == {Prefix("indexFile"), Prefix("indexDirectory")}

\* The locks with one of the prefixes that the context holds
HeldBy(c, prefixes) == {k \in LockKeys : ixLock[k] = c /\ k[1] \in prefixes}

\* The context is about to take, or waits for, a documenting lock
WantsDocLock(c) ==
    /\ Busy(c)
    /\ Top(c).fn \in {"documentFile", "documentDirectory"}
    /\ Top(c).pc \in {"acquire", "backoff"}

LockOrder(c) ==
    /\ Cardinality(HeldBy(c, DocPrefixes)) <= 1
    /\ Cardinality(HeldBy(c, IndexPrefixes)) <= 1
    /\ WantsDocLock(c) => HeldBy(c, DocPrefixes \cup IndexPrefixes) = {}
    /\ (cur[c].op = "documentPath" /\ HeldBy(c, IndexPrefixes) # {})
          => HeldBy(c, DocPrefixes) # {}

C34_FileChangedOnlyOnValidSuccess ==
    (addDoc.pc = "done" /\ text # addDoc.content) =>
        /\ addDoc.res = Documented("F")
        /\ addDoc.produced
        /\ addDoc.canValidate => addDoc.verdict = "valid"
====
